---------------------------- MODULE Spec2Model ----------------------------
(***************************************************************************)
(* A model of the BPE codec and the MRG container engine of                *)
(* src/game_file_handler.py.                                               *)
(*                                                                         *)
(* Files are sequences of bytes (naturals in 0..255); a file position is   *)
(* the 0-based offset Python's tell() returns.  Python's '' marker of an   *)
(* unfilled dictionary slot is the value Empty.                            *)
(***************************************************************************)
EXTENDS Integers, Sequences, FiniteSets, TLC

VARIABLES
    \* one block through _compress_block and back through the decompressor
    blk_pc, blk_data, blk_order, blk_comp, blk_decoded,
    \* one call of run_compression: its arguments, its position in the attempt
    \* loop, the host (compressed) file and its temp copy, what the caller gets
    run_pc, run_args, run_attempts, run_calls, run_host, run_temp,
    run_vals, run_ret, run_report,
    \* one call of run_decompression: the host file, the arguments, what
    \* _decompress computed and the files of the output directory;
    \* dcm_before keeps the host's bytes at the time of the call
    dcm_pc, dcm_host, dcm_before, dcm_args, dcm_res, dcm_fs,
    \* a host file decompressed, edited and compressed again, byte by byte:
    \* the host and its temp copy, the decompressed file, the metadata
    \* sidecar, the arguments and the attempt loop of run_compression;
    \* str_before keeps the host's bytes at the time of the call
    str_pc, str_host, str_before, str_temp, str_dec, str_meta, str_args,
    str_attempts, str_vals, str_call, str_runs, str_orders,
    \* an MRG container and the subdirectory of its extracted files, the
    \* padding mode it is handled with, the last call made on it and the
    \* number of targeted inserts so far
    mrg_pc, mrg_file, mrg_sector, mrg_dir, mrg_last, mrg_inserts,
    \* the worker pool of one call of _compress: the blocks and their
    \* tie-break orderings, what _compress_block makes of each block, the
    \* number of worker processes, the blocks whose worker has ended, the
    \* list the workers append to and the bytes written to the block region
    pool_pc, pool_blocks, pool_orders, pool_results, pool_workers, pool_done,
    pool_list, pool_region,
    \* the recorded orderings, what _compress knew when the pool started, the
    \* host file, the metadata sidecar and the values _compress returned
    pool_new_order, pool_call, pool_host, pool_meta, pool_vals

blockVars == << blk_pc, blk_data, blk_order, blk_comp, blk_decoded >>
runVars == << run_pc, run_args, run_attempts, run_calls, run_host, run_temp,
              run_vals, run_ret, run_report >>
decompVars == << dcm_pc, dcm_host, dcm_before, dcm_args, dcm_res, dcm_fs >>
streamVars == << str_pc, str_host, str_before, str_temp, str_dec, str_meta, str_args,
                 str_attempts, str_vals, str_call, str_runs, str_orders >>
mrgVars == << mrg_pc, mrg_file, mrg_sector, mrg_dir, mrg_last, mrg_inserts >>
poolVars == << pool_pc, pool_blocks, pool_orders, pool_results, pool_workers, pool_done,
               pool_list, pool_region, pool_new_order, pool_call, pool_host, pool_meta,
               pool_vals >>
vars == << blockVars, runVars, decompVars, streamVars, mrgVars, poolVars >>

(***************************************************************************)
(* Bounds of the model.                                                    *)
(***************************************************************************)
MaxBlockLen == 4
MaxRepeat == 6
MaxAttemptsArg == 7
MaxStreamBlocks == 2
MaxHostBlocks == 2
MaxFiles == 3
MaxInserts == 2
MaxRuns == 2

(***************************************************************************)
(* Program constants.                                                      *)
(***************************************************************************)
DICT_SIZE == 256
BLOCK_MAX == 2048
MIN_PAIR_COUNT == 5
PAD_BYTE == 140
JUMP_BASE == 127
LAST_KEY == 255
SMALL_FILE_ATTEMPTS == 5
DEFAULT_END_BLOCK == 512
DEFAULT_MAX_ATTEMPTS == 100
SCUS_FILL_END == 224296
BTLD_FILL_END == 26840
Empty == -1
SECTOR_SIZE == 2048
POOL_THRESHOLD == 15
MRG_SIG == << 77, 82, 71, 26 >>

Keys == 0 .. (DICT_SIZE - 1)

(***************************************************************************)
(* Small helpers on sequences and numbers.                                 *)
(***************************************************************************)
Min(S) == CHOOSE x \in S : \A y \in S : x <= y
Max(S) == CHOOSE x \in S : \A y \in S : x >= y
Range(s) == { s[i] : i \in 1 .. Len(s) }
Fill(n, b) == [i \in 1 .. n |-> b]

\* int.to_bytes(4, 'little') and int.from_bytes(.., 'little')
ToLE4(n) == << n % 256, (n \div 256) % 256, (n \div 65536) % 256, (n \div 16777216) % 256 >>
ToLE2(n) == << n % 256, (n \div 256) % 256 >>
RECURSIVE FromLE(_)
FromLE(s) == IF s = << >> THEN 0 ELSE s[1] + 256 * FromLE(Tail(s))


(***************************************************************************)
(* _choose_sort: the tie-break ordering of an attempt is random.randint(x, *)
(* y); the set of values the draw can produce.                             *)
(***************************************************************************)
_choose_sort(attempt_num) ==
    IF attempt_num <= 1 THEN {0}
    ELSE IF attempt_num = 2 THEN {1}
    ELSE IF attempt_num = 3 THEN {2}
    ELSE IF attempt_num = 4 THEN {3}
    ELSE IF attempt_num = 5 THEN {4}
    ELSE IF attempt_num <= 30 THEN 0 .. 1
    ELSE IF attempt_num <= 50 THEN 0 .. 2
    ELSE IF attempt_num <= 70 THEN 0 .. 3
    ELSE 0 .. 4

(***************************************************************************)
(* _sort_keys.  bp_count_dict is a Python dict: its entries are kept in    *)
(* insertion order, which is the order of first occurrence in the block;   *)
(* sorted() is stable.  An entry is <<left, right, count>>.                *)
(***************************************************************************)
RECURSIVE AscendingSeq(_)
AscendingSeq(S) == IF S = {} THEN << >> ELSE << Min(S) >> \o AscendingSeq(S \ {Min(S)})

CountPairs(s) ==
    LET idx == 1 .. (Len(s) - 1)
        firsts == { i \in idx : \A j \in idx : j < i => << s[j], s[j+1] >> # << s[i], s[i+1] >> }
        order == AscendingSeq(firsts)
    IN  [ n \in 1 .. Len(order) |->
            << s[order[n]], s[order[n] + 1],
               Cardinality({ j \in idx : s[j] = s[order[n]] /\ s[j+1] = s[order[n] + 1] }) >> ]

SortKey(e, sort_order) ==
    IF sort_order = 0 THEN << 0 - e[3] >>
    ELSE IF sort_order = 1 THEN << 0 - e[3], e[1], e[2] >>
    ELSE IF sort_order = 2 THEN << 0 - e[3], 0 - e[1], e[2] >>
    ELSE IF sort_order = 3 THEN << 0 - e[3], e[1], 0 - e[2] >>
    ELSE << 0 - e[3], 0 - e[1], 0 - e[2] >>

RECURSIVE TupleLess(_, _)
TupleLess(a, b) ==
    IF a = << >> \/ b = << >> THEN FALSE
    ELSE IF a[1] # b[1] THEN a[1] < b[1]
    ELSE TupleLess(Tail(a), Tail(b))

RemoveAt(s, i) == SubSeq(s, 1, i - 1) \o SubSeq(s, i + 1, Len(s))

RECURSIVE StableSort(_, _)
StableSort(entries, sort_order) ==
    IF entries = << >> THEN << >>
    ELSE LET first == CHOOSE i \in 1 .. Len(entries) :
                        \A j \in 1 .. Len(entries) :
                            /\ ~ TupleLess(SortKey(entries[j], sort_order), SortKey(entries[i], sort_order))
                            /\ (j < i => TupleLess(SortKey(entries[j], sort_order), SortKey(entries[i], sort_order))
                                           \/ TupleLess(SortKey(entries[i], sort_order), SortKey(entries[j], sort_order)))
         IN  << entries[first] >> \o StableSort(RemoveAt(entries, first), sort_order)

_sort_keys(count_dict, sort_order) == StableSort(count_dict, sort_order)

(***************************************************************************)
(* _compress_block, first half: the dictionary.  dict_leftch holds every   *)
(* byte of the block as a literal; the most frequent adjacent pair is      *)
(* moved to the highest unfilled key while its count is at least 5.        *)
(***************************************************************************)
\* bytes.replace(pair, key): left to right, matches do not overlap
RECURSIVE Replace(_, _, _, _)
Replace(s, a, b, k) ==
    IF Len(s) < 2 THEN s
    ELSE IF s[1] = a /\ s[2] = b THEN << k >> \o Replace(SubSeq(s, 3, Len(s)), a, b, k)
    ELSE << s[1] >> \o Replace(Tail(s), a, b, k)

\* (a variant that records only the first byte of the block as a literal)
InitialLeftFirstOnly(block) == [k \in Keys |-> IF k = block[1] THEN k ELSE Empty]

InitialLeft(block) == [k \in Keys |-> IF k \in Range(block) THEN k ELSE Empty]

EmptyKeys(leftch) == { k \in Keys : leftch[k] = Empty /\ k # LAST_KEY }

NextEmptyKey(empty_keys) == Max(empty_keys)

\* (a variant that takes a pair one occurrence earlier)
PairQualifiesEarly(entry, empty_keys) == entry[3] >= MIN_PAIR_COUNT - 1 /\ empty_keys # {}

PairQualifies(entry, empty_keys) == entry[3] >= MIN_PAIR_COUNT /\ empty_keys # {}

RECURSIVE PairLoop(_, _)
PairLoop(d, sort_order) ==
    LET bp_count_list == _sort_keys(CountPairs(d.cur), sort_order)
    IN  IF bp_count_list = << >> THEN [d EXCEPT !.status = "IndexError"]
        ELSE IF PairQualifies(bp_count_list[1], d.empty_keys)
        THEN LET empty_key == NextEmptyKey(d.empty_keys)
                 top == bp_count_list[1]
             IN  PairLoop([d EXCEPT !.leftch[empty_key] = top[1],
                                    !.rightch[empty_key] = top[2],
                                    !.cur = Replace(d.cur, top[1], top[2], empty_key),
                                    !.empty_keys = @ \ {empty_key},
                                    !.assigned = Append(@, empty_key),
                                    !.chosen = Append(@, << top, bp_count_list >>)],
                          sort_order)
        ELSE d

BuildDict(block, sort_order) ==
    LET leftch == InitialLeft(block)
        empty_keys == EmptyKeys(leftch)
        start == [status |-> "ok", leftch |-> leftch, rightch |-> [k \in Keys |-> Empty],
                  cur |-> block, empty_keys |-> empty_keys,
                  last_empty_key |-> IF empty_keys = {} THEN Empty ELSE Max(empty_keys),
                  assigned |-> << >>, chosen |-> << >>]
    IN  IF empty_keys = {} THEN [start EXCEPT !.status = "IndexError"]
        ELSE PairLoop(start, sort_order)

(***************************************************************************)
(* _compress_block, second half: the dictionary is written as the          *)
(* run-length/jump instructions the decompressor reads.  int.to_bytes(1)   *)
(* of a value above 255 raises OverflowError; '' has no to_bytes.          *)
(***************************************************************************)
RECURSIVE RunBytes(_, _, _, _)
RunBytes(leftch, rightch, k, hi) ==
    IF k > hi THEN << >>
    ELSE (IF rightch[k] # Empty THEN << leftch[k], rightch[k] >> ELSE << leftch[k] >>)
         \o RunBytes(leftch, rightch, k + 1, hi)

FirstHeader(leftch, rightch) ==
    LET low == { k \in 0 .. JUMP_BASE : rightch[k] # Empty }
    IN  IF low # {}
        THEN [out |-> << Min(low) + JUMP_BASE, leftch[Min(low)], rightch[Min(low)] >>,
              previous_key |-> Min(low)]
        ELSE [out |-> << 254, JUMP_BASE >>, previous_key |-> JUMP_BASE]

\* One pass of the while loop over the keys above previous_key.  A key that
\* holds no pair while no run is active only moves i on, so such keys are
\* passed over together, up to the next key holding a pair.
SerialStep(st, leftch, rightch, last_empty_key) ==
    LET i == st.i
        gap == i - st.previous_key
        next == [st EXCEPT !.i = i + 1]
        ahead == { k \in i .. last_empty_key : rightch[k] # Empty }
    IN  IF rightch[i] # Empty /\ gap > 1
        THEN IF i + JUMP_BASE - (st.previous_key + 1) > 255
             THEN [st EXCEPT !.status = "OverflowError"]
             ELSE [next EXCEPT !.sequential_keys = 0,
                               !.out = @ \o << i + JUMP_BASE - (st.previous_key + 1),
                                              leftch[i], rightch[i] >>,
                               !.previous_key = i]
        ELSE IF rightch[i] # Empty /\ gap = 1
        THEN IF ~ st.sequential_key_run
             THEN [st EXCEPT !.sequential_key_run = TRUE]
             ELSE IF i + 2 < 256 /\ ~ (rightch[i + 1] = Empty /\ rightch[i + 2] = Empty)
             THEN [next EXCEPT !.sequential_keys = @ + 1, !.previous_key = i]
             ELSE IF \E k \in (i - st.sequential_keys) .. i : leftch[k] = Empty
             THEN [st EXCEPT !.status = "AttributeError"]
             ELSE [next EXCEPT !.out = @ \o << st.sequential_keys >>
                                         \o RunBytes(leftch, rightch, i - st.sequential_keys, i),
                               !.sequential_keys = 0,
                               !.sequential_key_run = FALSE,
                               !.previous_key = i]
        ELSE IF rightch[i] = Empty /\ st.sequential_key_run
        THEN [next EXCEPT !.sequential_keys = @ + 1, !.previous_key = i]
        ELSE [st EXCEPT !.i = IF ahead = {} THEN last_empty_key + 1 ELSE Min(ahead)]

\* while i <= last_empty_key: at most n passes, split in halves to keep the
\* evaluation shallow.
RECURSIVE SerialLoop(_, _, _, _, _)
SerialLoop(st, n, leftch, rightch, last_empty_key) ==
    IF st.status # "ok" \/ st.i > last_empty_key THEN st
    ELSE IF n <= 1 THEN SerialStep(st, leftch, rightch, last_empty_key)
    ELSE SerialLoop(SerialLoop(st, n \div 2, leftch, rightch, last_empty_key),
                    n - (n \div 2), leftch, rightch, last_empty_key)

FinalHeader(rightch, last_empty_key) ==
    IF \A k \in Keys : rightch[k] = Empty THEN << 254, 255 >>
    ELSE << DICT_SIZE - (last_empty_key + 1) + JUMP_BASE >>

Padding(size) == IF size % 4 # 0 THEN 4 - (size % 4) ELSE 0

SerializeDict(leftch, rightch, last_empty_key) ==
    LET first == FirstHeader(leftch, rightch)
        body == SerialLoop([status |-> "ok", i |-> first.previous_key + 1,
                            previous_key |-> first.previous_key,
                            sequential_key_run |-> FALSE, sequential_keys |-> 0,
                            out |-> first.out],
                           2 * DICT_SIZE, leftch, rightch, last_empty_key)
        tail == FinalHeader(rightch, last_empty_key)
    IN  IF body.status # "ok" THEN [status |-> body.status, out |-> << >>]
        ELSE IF \E n \in 1 .. Len(tail) : tail[n] > 255
        THEN [status |-> "OverflowError", out |-> << >>]
        ELSE [status |-> "ok", out |-> body.out \o tail]

\* The whole of _compress_block: status, the padded block, the dictionary.
CompressBlock(block, sort_order) ==
    LET d == BuildDict(block, sort_order)
        ser == SerializeDict(d.leftch, d.rightch, d.last_empty_key)
        raw == ser.out \o d.cur
        status == IF d.status # "ok" THEN d.status ELSE ser.status
    IN  [status |-> status,
         data |-> IF status = "ok" THEN raw \o Fill(Padding(Len(raw)), PAD_BYTE) ELSE << >>,
         leftch |-> d.leftch, rightch |-> d.rightch,
         assigned |-> d.assigned, chosen |-> d.chosen, sort_order |-> sort_order]

(***************************************************************************)
(* Reading a file.  read(1) at the end of the file returns b'', which      *)
(* int.from_bytes turns into 0, and leaves the position where it is.       *)
(***************************************************************************)
ReadByte(f, pos) == IF pos < Len(f) THEN f[pos + 1] ELSE 0
Advance(f, pos) == IF pos < Len(f) THEN pos + 1 ELSE pos
ReadBytes(f, pos, n) == SubSeq(f, pos + 1, IF pos + n <= Len(f) THEN pos + n ELSE Len(f))
AdvanceBy(f, pos, n) == IF pos + n <= Len(f) THEN pos + n ELSE IF pos < Len(f) THEN Len(f) ELSE pos

(***************************************************************************)
(* _decompress, the dictionary of one block.  Both dictionaries start with *)
(* the keys 0x00..0xFF; they are Python dicts, so a write at a key past    *)
(* 0xFF adds that key.                                                     *)
(***************************************************************************)
\* (a variant that lands one key early)
JumpedKeyEarly(key, control) == key - (JUMP_BASE + 1) + control

\* key = key - 0x7f + byte_pairs_to_read
JumpedKey(key, control) == key - JUMP_BASE + control

\* d[key] = value on a Python dict
SetKey(d, key, value) ==
    IF key \in DOMAIN d THEN [d EXCEPT ![key] = value] ELSE (key :> value) @@ d

\* One pass of "for i in range(byte_pairs_to_read + 1)".
FillEntry(f, st) ==
    LET left == ReadByte(f, st.pos)
        p1 == Advance(f, st.pos)
        pair == left # st.key
    IN  [st EXCEPT !.leftch = SetKey(@, st.key, left),
                   !.rightch = IF pair THEN SetKey(@, st.key, ReadByte(f, p1)) ELSE @,
                   !.pos = IF pair THEN Advance(f, p1) ELSE p1,
                   !.key = @ + 1,
                   !.filled = @ \cup {st.key}]

\* n passes of the loop, by halves; st is read at every level, so that it is
\* evaluated before the recursion goes deeper
RECURSIVE FillEntries(_, _, _)
FillEntries(f, st, n) ==
    IF n = 0 \/ st.pos < 0 THEN st
    ELSE IF n = 1 THEN FillEntry(f, st)
    ELSE FillEntries(f, FillEntries(f, st, n \div 2), n - (n \div 2))

\* One pass of "while key < 0x100": a control byte, then its entries.
BuildStep(f, st) ==
    LET control == ReadByte(f, st.pos)
        jump == control >= 128
        key == IF jump THEN JumpedKey(st.key, control) ELSE st.key
        byte_pairs_to_read == IF jump THEN 0 ELSE control
        read == [st EXCEPT !.key = key, !.pos = Advance(f, st.pos),
                           !.controls = Append(@, << control, st.key >>)]
    IN  IF key < DICT_SIZE THEN FillEntries(f, read, byte_pairs_to_read + 1) ELSE read

\* Every pass moves key up by at least one: at most n passes.
RECURSIVE BuildKeys(_, _, _)
BuildKeys(f, st, n) ==
    IF st.key >= DICT_SIZE THEN st
    ELSE IF n <= 1 THEN BuildStep(f, st)
    ELSE BuildKeys(f, BuildKeys(f, st, n \div 2), n - (n \div 2))

ReadDict(f, pos) ==
    BuildKeys(f, [key |-> 0, pos |-> pos, leftch |-> [k \in Keys |-> k],
                  rightch |-> [k \in Keys |-> Empty], filled |-> {}, controls |-> << >>],
              DICT_SIZE)

(***************************************************************************)
(* _decompress, the payload of one block.  Each compressed byte is put on  *)
(* the list of unresolved bytes; a key that is its own left child is       *)
(* emitted, any other key is replaced by its left and right child.  The    *)
(* inner loop does not end when the dictionary holds a cycle.              *)
(***************************************************************************)
Children(leftch, rightch, k) == IF leftch[k] = k THEN {} ELSE {leftch[k], rightch[k]}

RECURSIVE Descendants(_, _, _, _)
Descendants(leftch, rightch, frontier, seen) ==
    IF frontier \subseteq seen THEN seen
    ELSE Descendants(leftch, rightch,
                     UNION { Children(leftch, rightch, k) : k \in frontier \ seen },
                     seen \cup frontier)

OnCycle(leftch, rightch, k) ==
    k \in Descendants(leftch, rightch, Children(leftch, rightch, k), {})

NeverResolves(leftch, rightch, c) ==
    \E k \in Descendants(leftch, rightch, {c}, {}) : OnCycle(leftch, rightch, k)

\* (a variant that puts the right child in front)
ExpandRightFirst(leftch, rightch, c) == << rightch[c], leftch[c] >>

\* insert(0, dict_rightch[c]), then insert(0, dict_leftch[c])
Expand(leftch, rightch, c) == << leftch[c], rightch[c] >>

RECURSIVE Resolve(_, _, _, _)
Resolve(leftch, rightch, unresolved, out) ==
    IF unresolved = << >> THEN out
    ELSE LET c == Head(unresolved)
         IN  IF c = leftch[c]
             THEN Resolve(leftch, rightch, Tail(unresolved), Append(out, c))
             ELSE Resolve(leftch, rightch,
                          Expand(leftch, rightch, c) \o Tail(unresolved), out)

RECURSIVE DecodePayload(_, _, _, _)
DecodePayload(f, leftch, rightch, st) ==
    IF st.status # "ok" \/ st.remaining <= 0 THEN st
    ELSE LET c == ReadByte(f, st.pos)
         IN  IF NeverResolves(leftch, rightch, c)
             THEN [st EXCEPT !.status = "hang"]
             ELSE LET bytes == Resolve(leftch, rightch, << c >>, << >>)
                  IN  DecodePayload(f, leftch, rightch,
                          [st EXCEPT !.pos = Advance(f, st.pos),
                                     !.out = @ \o bytes,
                                     !.remaining = @ - Len(bytes)])

WordAlign(pos) == IF pos % 4 # 0 THEN pos + (4 - (pos % 4)) ELSE pos

\* One block body (after its size prefix): dictionary, payload, alignment.
DecodeBlock(f, pos, size) ==
    LET d == ReadDict(f, pos)
        p == DecodePayload(f, d.leftch, d.rightch,
                           [status |-> "ok", pos |-> d.pos, out |-> << >>, remaining |-> size])
    IN  [status |-> p.status, out |-> p.out, pos |-> WordAlign(p.pos),
         leftch |-> d.leftch, rightch |-> d.rightch, filled |-> d.filled,
         controls |-> d.controls]

(***************************************************************************)
(* The block codec as a state machine: a block and a tie-break ordering    *)
(* are compressed by _compress_block; the result, when there is one, is    *)
(* read back by the decompressor with the block's length as its size.      *)
(***************************************************************************)
BlockBytes == {16, 254}

RECURSIVE SeqsUpTo(_, _)
SeqsUpTo(S, n) ==
    IF n = 0 THEN { << >> }
    ELSE LET shorter == SeqsUpTo(S, n - 1)
         IN  shorter \cup { Append(s, b) : s \in { x \in shorter : Len(x) = n - 1 }, b \in S }

Repeat(u, r) == [i \in 1 .. (r * Len(u)) |-> u[((i - 1) % Len(u)) + 1]]

Units == SeqsUpTo(BlockBytes, 2) \ { << >> }

Blocks ==
    (SeqsUpTo(BlockBytes, MaxBlockLen) \ { << >> })
    \cup { Repeat(u, r) \o Repeat(<< b >>, q) :
             u \in Units, r \in 1 .. MaxRepeat, b \in BlockBytes, q \in 0 .. MaxRepeat }

NoBlock == [status |-> "none"]

CompressBlockStep ==
    /\ blk_pc = "ready"
    /\ blk_comp' = CompressBlock(blk_data, blk_order)
    /\ blk_pc' = IF blk_comp'.status = "ok" THEN "compressed" ELSE "raised"
    /\ UNCHANGED << blk_data, blk_order, blk_decoded >>

DecodeBlockStep ==
    /\ blk_pc = "compressed"
    /\ blk_decoded' = DecodeBlock(blk_comp.data, 0, Len(blk_data))
    /\ blk_pc' = "decoded"
    /\ UNCHANGED << blk_data, blk_order, blk_comp >>

(***************************************************************************)
(* _decompress over a host file.  The signature is looked for in the first *)
(* 8 bytes; with is_subfile it is then looked for word by word from offset *)
(* 8 on, in a loop that has no exit at the end of the file.                *)
(***************************************************************************)
BPE_SIG == << 66, 80, 69, 26 >>
ZERO_WORD == << 0, 0, 0, 0 >>
FF_WORD == << 255, 255, 255, 255 >>
Absent == [present |-> FALSE, data |-> << >>]
File(data) == [present |-> TRUE, data |-> data]

Contains(s, sub) ==
    \E i \in 0 .. (Len(s) - Len(sub)) : SubSeq(s, i + 1, i + Len(sub)) = sub

SignatureWords(f) ==
    { q \in 8 .. Len(f) : (q - 8) % 4 = 0 /\ ReadBytes(f, q, 4) = BPE_SIG }

\* the file position at which "file size and BPE" are read
LocateHeader(f, is_subfile) ==
    IF Contains(ReadBytes(f, 0, 8), BPE_SIG) THEN [status |-> "ok", pos |-> 0]
    ELSE IF is_subfile
         THEN IF SignatureWords(f) = {} THEN [status |-> "no_exit", pos |-> Len(f)]
              ELSE [status |-> "ok", pos |-> Min(SignatureWords(f)) + 4 - 8]
         ELSE [status |-> "not_bpe", pos |-> AdvanceBy(f, 0, 8)]

EffectiveEnd(start_block, end_block) ==
    IF end_block <= start_block THEN DEFAULT_END_BLOCK ELSE end_block

InvalidSize(word) == FromLE(word) > BLOCK_MAX

\* (a variant that keeps the blocks after the start block only)
KeptAfterStart(start_block, block) == block > start_block

\* if block >= start_block: the byte is appended to the output
Kept(start_block, block) == block >= start_block

\* One pass of the block loop of _decompress.
DecompressBlockStep(f, start_block, end_block, st) ==
    LET block == st.block + 1
        word == ReadBytes(f, st.pos, 4)
        pos == AdvanceBy(f, st.pos, 4)
        read == [st EXCEPT !.block = block, !.pos = pos]
    IN  IF word = ZERO_WORD \/ word = << >> THEN [read EXCEPT !.status = "end"]
        ELSE IF InvalidSize(word)
        THEN [read EXCEPT !.status = "invalid_block", !.prefixes = Append(@, FromLE(word))]
        ELSE IF ~ (start_block > block) /\ ~ (start_block <= block /\ block < end_block)
        THEN [read EXCEPT !.status = "end", !.prefixes = Append(@, FromLE(word))]
        ELSE LET b == DecodeBlock(f, pos, FromLE(word))
                 kept == Kept(start_block, block)
             IN  [read EXCEPT
                    !.status = IF b.status = "ok" THEN "ok" ELSE "no_exit",
                    !.pos = b.pos,
                    !.prefixes = Append(@, FromLE(word)),
                    !.offset = IF start_block > block THEN @ + FromLE(word) ELSE @,
                    !.blocksizes = IF start_block > block THEN @ ELSE Append(@, word),
                    !.out = IF kept THEN @ \o b.out ELSE @,
                    !.decoded = Append(@, [block |-> block, size |-> FromLE(word),
                                            emitted |-> Len(b.out), kept |-> kept,
                                            keys |-> DOMAIN b.leftch \cup DOMAIN b.rightch,
                                            out |-> b.out])]

RECURSIVE DecompressLoop(_, _, _, _)
DecompressLoop(f, start_block, end_block, st) ==
    IF st.status # "ok" THEN st
    ELSE DecompressLoop(f, start_block, end_block,
                        DecompressBlockStep(f, start_block, end_block, st))

RECURSIVE Concat(_)
Concat(ss) == IF ss = << >> THEN << >> ELSE Head(ss) \o Concat(Tail(ss))

\* the metadata sidecar _decompress writes
MetaBytes(start_block, end_block, st) ==
    ToLE4(Len(st.out)) \o ToLE2(start_block)
    \o ToLE2(IF end_block > st.block THEN st.block ELSE end_block)
    \o Concat(SubSeq(st.blocksizes, 1, Min({Len(st.blocksizes), end_block + 1})))
    \o FF_WORD

\* _decompress up to the point where its output files are written
Decompress(f, start_block, end_block, is_subfile) ==
    LET h == LocateHeader(f, is_subfile)
        st0 == [status |-> h.status, block |-> -1, pos |-> AdvanceBy(f, h.pos, 8),
                offset |-> 0, blocksizes |-> << >>, out |-> << >>,
                prefixes |-> << >>, decoded |-> << >>]
    IN  DecompressLoop(f, start_block, EffectiveEnd(start_block, end_block), st0)

\* (a variant that writes the output of the blocks read so far whenever the
\* block loop ends)
FilesWrittenOnAbort(res, start_block, end_block, fs) ==
    [fs EXCEPT ![<< start_block, end_block >>] =
        [dec |-> File(res.out), meta |-> File(MetaBytes(start_block, end_block, res))]]

\* the files of the output directory when _decompress is over: the two
\* files are written under the name that holds the end_block argument, and
\* renamed when the stream had fewer blocks; when the name does not hold
\* the end block in use, the rename removes the files it is about to move.
FilesWritten(res, start_block, end_block, fs) ==
    LET end == EffectiveEnd(start_block, end_block)
    IN  IF res.status # "end" THEN fs
        ELSE IF end > res.block /\ end # end_block
        THEN [fs EXCEPT ![<< start_block, end_block >>] = [dec |-> Absent, meta |-> Absent]]
        ELSE [fs EXCEPT ![<< start_block, IF end > res.block THEN res.block ELSE end_block >>] =
                 [dec |-> File(res.out), meta |-> File(MetaBytes(start_block, end, res))]]

DecompressOutcome(res, start_block, end_block) ==
    CASE res.status = "end" ->
            IF EffectiveEnd(start_block, end_block) > res.block
               /\ EffectiveEnd(start_block, end_block) # end_block
            THEN "FileNotFoundError" ELSE "File decompressed"
      [] res.status = "invalid_block" -> "invalid block size"
      [] res.status = "not_bpe" -> "Not a BPE file"
      [] OTHER -> "no_exit"

(***************************************************************************)
(* Streams for the decompressor: a host made of an optional prefix, the    *)
(* 8-byte header, up to MaxStreamBlocks blocks, an optional zero word and  *)
(* trailing bytes.  The blocks are a one-literal block, a block whose      *)
(* dictionary holds the pair 0x41 = (0x10, 0x20), a block written by       *)
(* _compress_block, the pair block with an odd size prefix, a block whose   *)
(* dictionary is filled by a run that starts at key 0x81, and a block with *)
(* the size prefix 0x801.                                                  *)
(***************************************************************************)
PadTo4(s) == s \o Fill(Padding(Len(s)), PAD_BYTE)

LitBlock(data) == PadTo4(ToLE4(Len(data)) \o << 255, 128, 255 >> \o data)
PairBlock == PadTo4(ToLE4(6) \o << 192, 16, 32, 255, 194, 255 >> \o << 65, 65, 65 >>)
CodecBlock == ToLE4(12) \o CompressBlock(Repeat(<< 16 >>, 12), 0).data
BadBlock == ToLE4(BLOCK_MAX + 1) \o << 255, 128, 255, 16 >>

\* the pair block with the declared size 5: its third payload byte is a pair
ShortPairBlock == PadTo4(ToLE4(5) \o << 192, 16, 32, 255, 194, 255 >> \o << 65, 65, 65 >>)

\* a block whose dictionary is built by 0xFF (key 0x80), then 0x7F: the 128
\* entries from key 0x81 on, the last of them the pair (0x10, 0x20)
LongRunBlock ==
    PadTo4(ToLE4(1) \o << 255, 128, 127 >> \o [i \in 1 .. 127 |-> 128 + i] \o << 16, 32 >>
           \o << 16 >>)

SampleBlocks ==
    { LitBlock(<< 16 >>), PairBlock, ShortPairBlock, LongRunBlock, CodecBlock, BadBlock }
HostPrefixes == { << >>, << 1, 2, 3, 4, 5, 6, 7, 8 >> }
HostTails == { << >>, << 9, 9, 9, 9 >> }

Streams ==
    { pre \o ToLE4(0) \o BPE_SIG \o Concat(bs) \o term \o tail :
        pre \in HostPrefixes, bs \in SeqsUpTo(SampleBlocks, MaxStreamBlocks),
        term \in { << >>, ZERO_WORD }, tail \in HostTails }
    \cup { << 1, 2, 3, 4, 5, 6, 7, 8, 9, 9, 9, 9 >> }

NoResult == [status |-> "none"]
NoFiles == [n \in (0 .. 1) \X (0 .. (MaxStreamBlocks + 1)) |-> [dec |-> Absent, meta |-> Absent]]

\* run_decompression opens the host for reading only
RunDecompression ==
    /\ dcm_pc = "called"
    /\ dcm_res' = Decompress(dcm_host, dcm_args.start_block, dcm_args.end_block,
                             dcm_args.is_subfile)
    /\ dcm_fs' = FilesWritten(dcm_res', dcm_args.start_block, dcm_args.end_block, dcm_fs)
    /\ dcm_pc' = DecompressOutcome(dcm_res', dcm_args.start_block, dcm_args.end_block)
    /\ UNCHANGED << dcm_host, dcm_before, dcm_args >>

(***************************************************************************)
(* run_compression, the attempt loop.  Here _compress is seen through what *)
(* it returns and leaves behind: the end offset of the block region it     *)
(* found in the host (end_block_offset), the end offset of the region it   *)
(* wrote (new_end_offset), and a host whose block region was rewritten.    *)
(* The new end offset depends on the data and on the random orderings; it  *)
(* is drawn from RegionEnds.  run_args.name is the part of the file name   *)
(* the sub-file branch looks at.                                           *)
(***************************************************************************)
RegionEnds == {20, 24, 28}
DecSizes == {BLOCK_MAX - 1, BLOCK_MAX, BLOCK_MAX + 1}
NameKinds == {"SCUS", "BTLD", "OTHER"}
None == "None"
NoVals == [orig_end |-> 0, new_end |-> 0]
NoFile == [ver |-> "absent"]

CleanHost(end) == [ver |-> "clean", attempt |-> 0, end |-> end, fill |-> "none"]

Constrained(a) == a.is_subfile \/ a.mod_mode

FirstAttempt(a) == IF Constrained(a) THEN 1 ELSE 0

\* what one call of _compress leaves in the host and returns
CompressCall(host, attempt_num, new_end) ==
    [host |-> [ver |-> "written", attempt |-> attempt_num, end |-> new_end, fill |-> "none"],
     vals |-> [orig_end |-> host.end, new_end |-> new_end]]

Oversized(v) == v.orig_end < v.new_end

BudgetLeft(a, attempts) ==
    \/ a.dec_size > BLOCK_MAX /\ attempts < a.max_attempts
    \/ a.dec_size <= BLOCK_MAX /\ attempts <= SMALL_FILE_ATTEMPTS

BudgetSpent(a, attempts) ==
    \/ a.dec_size > BLOCK_MAX /\ attempts >= a.max_attempts
    \/ a.dec_size <= BLOCK_MAX /\ attempts > SMALL_FILE_ATTEMPTS

ShouldRetry(a, v, attempts) == Constrained(a) /\ Oversized(v) /\ BudgetLeft(a, attempts)

ShouldFail(a, v, attempts) == Constrained(a) /\ Oversized(v) /\ BudgetSpent(a, attempts)

\* (a variant that leaves the attempt's output in place)
RestoreHostNot(host, temp) == host

\* the host after a failed attempt: the temp copy is copied back
RestoreHost(host, temp) == temp

\* the sub-file branch of an accepted attempt: zero bytes are written where
\* the file name says, or at offset 0 when the name says nothing
ZeroFill(a, v, host) ==
    IF a.is_subfile /\ v.new_end < v.orig_end
    THEN [host EXCEPT !.fill = CASE a.name = "SCUS" -> "gap"
                               [] a.name = "BTLD" -> "appended"
                               [] OTHER -> "offset0"]
    ELSE host

RunSkip ==
    /\ run_pc = "called"
    /\ ~ run_args.exists
    /\ run_pc' = "returned"
    /\ run_ret' = None
    /\ run_report' = "does not exist"
    /\ UNCHANGED << run_args, run_attempts, run_calls, run_host, run_temp, run_vals >>

RunStart ==
    /\ run_pc = "called"
    /\ run_args.exists
    /\ run_temp' = run_host
    /\ run_attempts' = FirstAttempt(run_args)
    /\ run_pc' = "attempt"
    /\ UNCHANGED << run_args, run_calls, run_host, run_vals, run_ret, run_report >>

RunRetry ==
    /\ run_pc = "attempt"
    /\ \E new_end \in RegionEnds :
         LET c == CompressCall(run_host, run_attempts, new_end)
         IN  /\ ShouldRetry(run_args, c.vals, run_attempts)
             /\ run_vals' = c.vals
             /\ run_host' = RestoreHost(c.host, run_temp)
    /\ run_calls' = run_calls + 1
    /\ run_attempts' = run_attempts + 1
    /\ UNCHANGED << run_pc, run_args, run_temp, run_ret, run_report >>

RunFail ==
    /\ run_pc = "attempt"
    /\ \E new_end \in RegionEnds :
         LET c == CompressCall(run_host, run_attempts, new_end)
         IN  /\ ~ ShouldRetry(run_args, c.vals, run_attempts)
             /\ ShouldFail(run_args, c.vals, run_attempts)
             /\ run_vals' = c.vals
             /\ run_host' = RestoreHost(c.host, run_temp)
    /\ run_calls' = run_calls + 1
    /\ run_temp' = NoFile
    /\ run_pc' = "returned"
    /\ run_ret' = None
    /\ run_report' = "Could not compress subfile to original size"
    /\ UNCHANGED << run_args, run_attempts >>

RunAccept ==
    /\ run_pc = "attempt"
    /\ \E new_end \in RegionEnds :
         LET c == CompressCall(run_host, run_attempts, new_end)
         IN  /\ ~ ShouldRetry(run_args, c.vals, run_attempts)
             /\ ~ ShouldFail(run_args, c.vals, run_attempts)
             /\ run_vals' = c.vals
             /\ run_host' = ZeroFill(run_args, c.vals, c.host)
    /\ run_calls' = run_calls + 1
    /\ run_temp' = NoFile
    /\ run_pc' = "returned"
    /\ run_ret' = None
    /\ run_report' = "File compressed"
    /\ UNCHANGED << run_args, run_attempts >>

(***************************************************************************)
(* _dummy_decompress: the offsets of the start block and of the word after *)
(* the end block.  With is_subfile the signature is looked for word by     *)
(* word from offset 0.                                                     *)
(***************************************************************************)
WordsWithSignature(f) == { q \in 0 .. Len(f) : q % 4 = 0 /\ ReadBytes(f, q, 4) = BPE_SIG }

DummyHeader(f, is_subfile) ==
    IF is_subfile
    THEN IF WordsWithSignature(f) = {} THEN [status |-> "no_exit", pos |-> Len(f), subfile_start |-> 0]
         ELSE [status |-> "ok", pos |-> Min(WordsWithSignature(f)) + 4,
               subfile_start |-> Min(WordsWithSignature(f)) + 4 - 8]
    ELSE [status |-> "ok", pos |-> 8, subfile_start |-> 0]

DummyBlockStep(f, start_block, end_block, st) ==
    LET block == st.block + 1
        start_block_offset == IF block = start_block THEN st.pos ELSE st.start_block_offset
        word == ReadBytes(f, st.pos, 4)
        pos == AdvanceBy(f, st.pos, 4)
        read == [st EXCEPT !.block = block, !.pos = pos, !.start_block_offset = start_block_offset]
    IN  IF word = ZERO_WORD \/ word = << >> THEN [read EXCEPT !.status = "end"]
        ELSE IF InvalidSize(word) THEN [read EXCEPT !.status = "ValueError"]
        ELSE IF ~ (start_block > block) /\ ~ (start_block <= block /\ block < end_block)
        THEN [read EXCEPT !.status = "end"]
        ELSE LET b == DecodeBlock(f, pos, FromLE(word))
             IN  [read EXCEPT !.status = IF b.status = "ok" THEN "ok" ELSE "no_exit",
                              !.pos = b.pos]

RECURSIVE DummyLoop(_, _, _, _)
DummyLoop(f, start_block, end_block, st) ==
    IF st.status # "ok" THEN st
    ELSE DummyLoop(f, start_block, end_block, DummyBlockStep(f, start_block, end_block, st))

_dummy_decompress(f, start_block, end_block, is_subfile) ==
    LET h == DummyHeader(f, is_subfile)
        st == DummyLoop(f, start_block, EffectiveEnd(start_block, end_block),
                        [status |-> h.status, block |-> -1, pos |-> h.pos,
                         start_block_offset |-> 8])
    IN  [status |-> st.status, start_block_offset |-> st.start_block_offset,
         end_block_offset |-> st.pos - 4, subfile_start |-> h.subfile_start]

(***************************************************************************)
(* _compress.  The metadata sidecar gives the original decompressed size,  *)
(* the block range and the block sizes; bytes after its 0xFFFFFFFF word    *)
(* are tie-break orderings of an earlier compression.                      *)
(***************************************************************************)
RECURSIVE MetaSizes(_, _, _)
MetaSizes(meta, pos, acc) ==
    LET word == ReadBytes(meta, pos, 4)
    IN  IF word = FF_WORD THEN [status |-> "ok", sizes |-> acc, pos |-> pos + 4]
        ELSE IF word = << >> THEN [status |-> "no_exit", sizes |-> acc, pos |-> pos]
        ELSE MetaSizes(meta, AdvanceBy(meta, pos, 4), Append(acc, FromLE(word)))

ParseMeta(meta) ==
    LET s == MetaSizes(meta, 8, << >>)
    IN  [status |-> s.status,
         orig_file_size |-> FromLE(ReadBytes(meta, 0, 4)),
         start_block |-> FromLE(ReadBytes(meta, 4, 2)),
         end_block |-> FromLE(ReadBytes(meta, 6, 2)),
         blocksize_list |-> s.sizes,
         sort_order_list |-> SubSeq(meta, s.pos + 1, Len(meta)),
         orders_pos |-> s.pos]

\* a write of bytes at a file position, past the end of the file included
WriteAt(f, pos, bytes) ==
    IF bytes = << >> THEN f
    ELSE (IF pos <= Len(f) THEN SubSeq(f, 1, pos) ELSE f \o Fill(pos - Len(f), 0))
         \o bytes \o SubSeq(f, pos + Len(bytes) + 1, Len(f))

Truncate(f, size) ==
    IF size <= Len(f) THEN SubSeq(f, 1, size) ELSE f \o Fill(size - Len(f), 0)

\* the blocks read from the decompressed file: the sizes of the metadata,
\* and 0x800 from the last recorded block on
ReadSize(blocksize_list, block_num) ==
    IF block_num >= Len(blocksize_list) - 1 THEN BLOCK_MAX ELSE blocksize_list[block_num + 1]

RECURSIVE SplitBlocks(_, _, _, _)
SplitBlocks(dec, pos, blocksize_list, block_num) ==
    LET block == ReadBytes(dec, pos, ReadSize(blocksize_list, block_num))
    IN  IF block = << >> THEN << >>
        ELSE << block >> \o SplitBlocks(dec, pos + Len(block), blocksize_list, block_num + 1)

\* the orderings the blocks can be compressed with in one call
OrderChoices(block_list, sort_order_list, attempt_num, constrained) ==
    IF constrained /\ sort_order_list # << >>
    THEN { [i \in 1 .. Len(block_list) |->
              IF i <= Len(sort_order_list) THEN sort_order_list[i] ELSE Empty] }
    ELSE [1 .. Len(block_list) -> _choose_sort(attempt_num)]

CompressBlocks(block_list, orders) ==
    [i \in 1 .. Len(block_list) |->
        IF orders[i] = Empty THEN [status |-> "IndexError", data |-> << >>]
        ELSE LET c == CompressBlock(block_list[i], orders[i])
             IN  [status |-> c.status, data |-> ToLE4(Len(block_list[i])) \o c.data]]

FirstFailure(comp_block_list) ==
    LET bad == { i \in 1 .. Len(comp_block_list) : comp_block_list[i].status # "ok" }
    IN  IF bad = {} THEN "ok" ELSE comp_block_list[Min(bad)].status

NoReturn(status, host) ==
    [status |-> status, host |-> host, orig_end |-> 0, new_end |-> 0, new_order_list |-> << >>]

\* the compressed blocks are written after the kept part of the host, then
\* the bytes that followed the end block
WriteRegion(sized, comp_file_end, end_block_offset, comp_block_list, new_order_list) ==
    IF FirstFailure(comp_block_list) # "ok"
    THEN NoReturn(FirstFailure(comp_block_list), sized)
    ELSE [status |-> "ok",
          host |-> sized \o Concat([i \in 1 .. Len(comp_block_list) |-> comp_block_list[i].data])
                   \o comp_file_end,
          orig_end |-> end_block_offset,
          new_end |-> Len(sized)
                      + Len(Concat([i \in 1 .. Len(comp_block_list) |-> comp_block_list[i].data])),
          new_order_list |-> new_order_list]

\* the host is cut at the start block and the total-size word is rewritten
WriteSize(truncated, size_pos, size_diff) ==
    WriteAt(truncated, AdvanceBy(truncated, size_pos, 4) - 4,
            ToLE4(FromLE(ReadBytes(truncated, size_pos, 4)) + size_diff))

CompressAt(dec, host, m, d, orders, constrained, is_subfile) ==
    IF d.status # "end" THEN NoReturn(d.status, host)
    ELSE IF FromLE(ReadBytes(host, IF is_subfile THEN d.subfile_start ELSE 0, 4))
            + (Len(dec) - m.orig_file_size) < 0
    THEN NoReturn("OverflowError", Truncate(host, d.start_block_offset))
    ELSE WriteRegion(WriteSize(Truncate(host, d.start_block_offset),
                               IF is_subfile THEN d.subfile_start ELSE 0,
                               Len(dec) - m.orig_file_size),
                     SubSeq(host, d.end_block_offset + 1, Len(host)),
                     d.end_block_offset,
                     CompressBlocks(SplitBlocks(dec, 0, m.blocksize_list, 0), orders),
                     IF constrained /\ m.sort_order_list = << >> THEN orders ELSE << >>)

CompressWith(dec, host, m, orders, constrained, is_subfile) ==
    CompressAt(dec, host, m, _dummy_decompress(host, m.start_block, m.end_block, is_subfile),
               orders, constrained, is_subfile)

\* what _compress has done to the host when it returns, or when it raises
_compress(dec, host, meta, orders, constrained, is_subfile) ==
    CompressWith(dec, host, ParseMeta(meta), orders, constrained, is_subfile)

\* the metadata sidecar after an accepted attempt in constrained mode
WriteOrders(meta, new_order_list) == WriteAt(meta, ParseMeta(meta).orders_pos, new_order_list)

\* the sub-file branch of an accepted attempt
ZeroFillBytes(name, host, diff) ==
    CASE name = "SCUS" ->
            LET pos == SCUS_FILL_END - diff
            IN  WriteAt(WriteAt(host, pos, Fill(diff, 0)), pos + diff,
                        SubSeq(host, pos + 1, Len(host)))
      [] name = "BTLD" ->
            LET pos == BTLD_FILL_END - diff
                at == IF pos < Len(host) THEN Len(host) ELSE pos
            IN  WriteAt(WriteAt(host, at, Fill(diff, 0)), at + diff,
                        SubSeq(host, pos + 1, Len(host)))
      [] OTHER -> WriteAt(host, 0, Fill(diff, 0))

(***************************************************************************)
(* Hosts: an optional prefix of foreign bytes, the size word, the          *)
(* signature, one to MaxHostBlocks blocks of literal bytes, the zero word  *)
(* and trailing bytes.  The host is decompressed with the default block    *)
(* range, the decompressed file is edited or not, and run_compression is   *)
(* called on it.                                                           *)
(***************************************************************************)
HostData == { Repeat(<< 16 >>, 12), << 16, 254 >> }
HostBlockLists == SeqsUpTo(HostData, MaxHostBlocks) \ { << >> }

RECURSIVE SumLen(_)
SumLen(ss) == IF ss = << >> THEN 0 ELSE Len(Head(ss)) + SumLen(Tail(ss))

Hosts ==
    { pre \o ToLE4(SumLen(ds)) \o BPE_SIG \o Concat([i \in 1 .. Len(ds) |-> LitBlock(ds[i])])
          \o ZERO_WORD \o tail :
        pre \in HostPrefixes, ds \in HostBlockLists, tail \in HostTails }

Edits(dec) == { dec, dec \o << 16, 254, 16, 254 >>, SubSeq(dec, 1, 1) }

StreamDecompress ==
    /\ str_pc = "start"
    /\ LET res == Decompress(str_host, 0, DEFAULT_END_BLOCK, str_args.is_subfile)
       IN  IF DecompressOutcome(res, 0, DEFAULT_END_BLOCK) = "File decompressed"
           THEN /\ str_dec' = res.out
                /\ str_meta' = MetaBytes(0, DEFAULT_END_BLOCK, res)
                /\ str_pc' = "decompressed"
           ELSE /\ str_pc' = DecompressOutcome(res, 0, DEFAULT_END_BLOCK)
                /\ UNCHANGED << str_dec, str_meta >>
    /\ UNCHANGED << str_host, str_before, str_temp, str_args, str_attempts, str_vals,
                    str_call, str_runs, str_orders >>

\* the user edits the decompressed file, then run_compression starts
StreamRunStart ==
    /\ str_pc = "decompressed"
    /\ str_dec' \in Edits(str_dec)
    /\ str_temp' = File(str_host)
    /\ str_before' = str_host
    /\ str_attempts' = FirstAttempt(str_args)
    /\ str_pc' = "attempt"
    /\ str_runs' = 1
    /\ UNCHANGED << str_host, str_meta, str_args, str_vals, str_call, str_orders >>

StreamArgs == [str_args EXCEPT !.dec_size = Len(str_dec)]

StreamOrders ==
    LET m == ParseMeta(str_meta)
    IN  OrderChoices(SplitBlocks(str_dec, 0, m.blocksize_list, 0), m.sort_order_list,
                     str_attempts, Constrained(str_args))

StreamCall(orders) ==
    _compress(str_dec, str_host, str_meta, orders, Constrained(str_args), str_args.is_subfile)

StreamVals(c) == [orig_end |-> c.orig_end, new_end |-> c.new_end]

\* one call of _compress inside the attempt loop
StreamCompress ==
    /\ str_pc = "attempt"
    /\ \E orders \in StreamOrders :
         /\ str_call' = StreamCall(orders)
         /\ str_orders' = orders
    /\ str_host' = str_call'.host
    /\ str_vals' = StreamVals(str_call')
    /\ str_pc' = "compressed"
    /\ UNCHANGED << str_before, str_temp, str_dec, str_meta, str_args, str_attempts,
                    str_runs >>

\* _compress raised: run_compression is left by the exception
StreamRaise ==
    /\ str_pc = "compressed"
    /\ str_call.status # "ok"
    /\ str_pc' = str_call.status
    /\ UNCHANGED << str_host, str_before, str_temp, str_dec, str_meta, str_args,
                    str_attempts, str_vals, str_call, str_runs, str_orders >>

StreamRetry ==
    /\ str_pc = "compressed"
    /\ str_call.status = "ok"
    /\ ShouldRetry(StreamArgs, str_vals, str_attempts)
    /\ str_attempts' = str_attempts + 1
    /\ str_host' = RestoreHost(str_host, str_temp.data)
    /\ str_pc' = "attempt"
    /\ UNCHANGED << str_before, str_temp, str_dec, str_meta, str_args, str_vals, str_call,
                    str_runs, str_orders >>

StreamFail ==
    /\ str_pc = "compressed"
    /\ str_call.status = "ok"
    /\ ~ ShouldRetry(StreamArgs, str_vals, str_attempts)
    /\ ShouldFail(StreamArgs, str_vals, str_attempts)
    /\ str_host' = RestoreHost(str_host, str_temp.data)
    /\ str_temp' = Absent
    /\ str_pc' = "Could not compress subfile to original size"
    /\ UNCHANGED << str_before, str_dec, str_meta, str_args, str_attempts, str_vals, str_call,
                    str_runs, str_orders >>

StreamAccept ==
    /\ str_pc = "compressed"
    /\ str_call.status = "ok"
    /\ ~ ShouldRetry(StreamArgs, str_vals, str_attempts)
    /\ ~ ShouldFail(StreamArgs, str_vals, str_attempts)
    /\ str_meta' = IF Constrained(str_args)
                   THEN WriteOrders(str_meta, str_call.new_order_list) ELSE str_meta
    /\ str_host' = IF str_args.is_subfile /\ str_vals.new_end < str_vals.orig_end
                   THEN ZeroFillBytes(str_args.name, str_host,
                                      str_vals.orig_end - str_vals.new_end)
                   ELSE str_host
    /\ str_temp' = Absent
    /\ str_pc' = "File compressed"
    /\ UNCHANGED << str_before, str_dec, str_args, str_attempts, str_vals, str_call,
                    str_runs, str_orders >>

\* run_compression is called again on the host and the metadata the last
\* accepted run left, after the decompressed file was edited or not
StreamRerun ==
    /\ str_pc = "File compressed"
    /\ str_runs < MaxRuns
    /\ str_dec' \in Edits(str_dec)
    /\ str_temp' = File(str_host)
    /\ str_before' = str_host
    /\ str_attempts' = FirstAttempt(str_args)
    /\ str_runs' = str_runs + 1
    /\ str_pc' = "attempt"
    /\ UNCHANGED << str_host, str_meta, str_args, str_vals, str_call, str_orders >>

(***************************************************************************)
(* MRG containers.  A container is the signature, the count of subfiles,   *)
(* a table of 8-byte slots (offset, size) and the data of the subfiles.    *)
(* With sector_padding a slot holds a sector number instead of an offset.  *)
(* LBATable keeps the slots as three lists sorted together; here an entry  *)
(* is the record [ptr, loc, size] and the table a sequence of entries.     *)
(***************************************************************************)
AlignUnit(sector_padding) == IF sector_padding THEN SECTOR_SIZE ELSE 4

\* ceil(n / unit) * unit
CeilTo(n, unit) == ((n + unit - 1) \div unit) * unit

EntryLess(a, b) == a.loc < b.loc \/ (a.loc = b.loc /\ a.size < b.size)

\* sort_together(.., key_list=(0, 1)): sorted() on (loc, size), stable
RECURSIVE SortTogether(_)
SortTogether(es) ==
    IF es = << >> THEN << >>
    ELSE LET first == CHOOSE i \in 1 .. Len(es) :
                        /\ \A j \in 1 .. Len(es) : ~ EntryLess(es[j], es[i])
                        /\ \A j \in 1 .. (i - 1) : EntryLess(es[i], es[j])
         IN  << es[first] >> \o SortTogether(RemoveAt(es, first))

\* every slot read as a sector number
ReadSlotAsSector(f, ptr, sector_padding) ==
    [ptr |-> ptr,
     loc |-> FromLE(ReadBytes(f, ptr, 4)) * SECTOR_SIZE,
     size |-> FromLE(ReadBytes(f, ptr + 4, 4))]

ReadSlot(f, ptr, sector_padding) ==
    [ptr |-> ptr,
     loc |-> IF sector_padding THEN FromLE(ReadBytes(f, ptr, 4)) * SECTOR_SIZE
             ELSE FromLE(ReadBytes(f, ptr, 4)),
     size |-> FromLE(ReadBytes(f, ptr + 4, 4))]

\* (a variant that sorts the offsets and sizes and leaves the slot positions
\* in the order of the table)
ReadSortedApart(f, sector_padding) ==
    LET slots == [i \in 1 .. FromLE(ReadBytes(f, 4, 4)) |->
                    ReadSlot(f, 8 + 8 * (i - 1), sector_padding)]
        sorted == SortTogether(slots)
    IN  [i \in 1 .. Len(slots) |-> [sorted[i] EXCEPT !.ptr = slots[i].ptr]]

\* LBATable.__init__ and read_lba_table; the container holds its whole table
read_lba_table(f, sector_padding) ==
    SortTogether([i \in 1 .. FromLE(ReadBytes(f, 4, 4)) |->
                    ReadSlot(f, 8 + 8 * (i - 1), sector_padding)])

\* An item of a file list is '*' or the number of a file (numbers here have
\* one digit).
Star == [all |-> TRUE, num |-> 0]
Single(n) == [all |-> FALSE, num |-> n]

parse_input(file_list, num_files_in_mrg) ==
    AscendingSeq(UNION { IF file_list[i].all THEN 1 .. num_files_in_mrg
                         ELSE { file_list[i].num } : i \in 1 .. Len(file_list) })

IsMrg(f) == f # << >> /\ ReadBytes(f, 0, 4) = MRG_SIG

(***************************************************************************)
(* extract_files.  The subdirectory is a function from file numbers to     *)
(* files; file 0 is the table region, file num the entry num of the sorted *)
(* table.                                                                  *)
(***************************************************************************)
ExtractedBytes(f, lba, num) ==
    IF num = 0 THEN ReadBytes(f, 0, 8 * Len(lba) + 8)
    ELSE ReadBytes(f, lba[num].loc, lba[num].size)

\* an empty file written for a file number past the table
ExtractWithMissing(f, lba, file_nums, dir) ==
    [n \in DOMAIN dir |->
        IF n \in Range(file_nums)
        THEN (IF n <= Len(lba) THEN File(ExtractedBytes(f, lba, n)) ELSE File(<< >>))
        ELSE dir[n]]

ExtractWith(f, lba, file_nums, dir) ==
    [n \in DOMAIN dir |->
        IF n \in Range(file_nums) /\ n <= Len(lba)
        THEN File(ExtractedBytes(f, lba, n)) ELSE dir[n]]

extract_files(f, sector_padding, files_to_extract, dir) ==
    IF ~ IsMrg(f) \/ FromLE(ReadBytes(f, 4, 4)) = 0 THEN dir
    ELSE ExtractWith(f, read_lba_table(f, sector_padding),
                     parse_input(files_to_extract, FromLE(ReadBytes(f, 4, 4))), dir)

(***************************************************************************)
(* _insert_helper.  A file that fits the allocation of its entry, or the   *)
(* last file, is written in place; for a larger one the rest of the        *)
(* container, from the offset of the next entry on, is read, written back  *)
(* after the new file, and the later entries are moved when the new file   *)
(* ends past the offset of the next entry.                                 *)
(***************************************************************************)
Allocation(size, sector_padding) == CeilTo(size, AlignUnit(sector_padding))

\* (a variant that overwrites in place only the last file)
InPlaceOnlyLast(lba, num, file_size, sector_padding) == num = Len(lba)

InPlace(lba, num, file_size, sector_padding) ==
    num = Len(lba) \/ file_size <= Allocation(lba[num].size, sector_padding)

InsertPadding(lba, num, file_size, sector_padding, in_place) ==
    IF ~ sector_padding /\ num # Len(lba) /\ file_size % 4 # 0 THEN 4 - (file_size % 4)
    ELSE IF ~ in_place /\ sector_padding /\ file_size % SECTOR_SIZE # 0
         THEN SECTOR_SIZE - (file_size % SECTOR_SIZE)
    ELSE 0

ShiftFrom(lba, first, by) ==
    [i \in 1 .. Len(lba) |-> IF i >= first THEN [lba[i] EXCEPT !.loc = @ + by] ELSE lba[i]]

InsertInPlace(st, num, written, file_size) ==
    [f |-> WriteAt(st.f, st.lba[num].loc, written),
     lba |-> [st.lba EXCEPT ![num].size = file_size]]

InsertShifting(st, num, written, file_size, rest, size_enlarged_by) ==
    [f |-> WriteAt(WriteAt(st.f, st.lba[num].loc, written),
                   st.lba[num].loc + Len(written), rest),
     lba |-> [(IF size_enlarged_by > 0 THEN ShiftFrom(st.lba, num + 1, size_enlarged_by)
               ELSE st.lba) EXCEPT ![num].size = file_size]]

InsertOne(st, num, data, sector_padding) ==
    IF InPlace(st.lba, num, Len(data), sector_padding)
    THEN InsertInPlace(st, num,
             data \o Fill(InsertPadding(st.lba, num, Len(data), sector_padding, TRUE), PAD_BYTE),
             Len(data))
    ELSE InsertShifting(st, num,
             data \o Fill(InsertPadding(st.lba, num, Len(data), sector_padding, FALSE), PAD_BYTE),
             Len(data),
             ReadBytes(st.f, st.lba[num + 1].loc, Len(st.f)),
             st.lba[num].loc + Len(data)
                 + InsertPadding(st.lba, num, Len(data), sector_padding, FALSE)
                 - st.lba[num + 1].loc)

RECURSIVE _insert_helper(_, _, _, _)
_insert_helper(st, file_nums, sector_padding, dir) ==
    IF file_nums = << >> THEN st
    ELSE IF Head(file_nums) > Len(st.lba) \/ ~ dir[Head(file_nums)].present
         THEN _insert_helper(st, Tail(file_nums), sector_padding, dir)
    ELSE _insert_helper(InsertOne(st, Head(file_nums), dir[Head(file_nums)].data, sector_padding),
                        Tail(file_nums), sector_padding, dir)

(***************************************************************************)
(* _rebuild_helper.  The container is cut after the table (after the       *)
(* sector of the table with sector_padding) and the files 1..N are written *)
(* one after the other.  An entry whose offset equals the offset the       *)
(* previous entry had when its turn came is written over the previous one. *)
(***************************************************************************)
\* (a variant that cuts the container at its first byte)
RebuildStartAtZero(lba, sector_padding) == 0

\* the end of the table, where the container is cut
RebuildStart(lba, sector_padding) ==
    IF sector_padding
    THEN (8 + 8 * Len(lba)) + 8 + (SECTOR_SIZE - (((8 + 8 * Len(lba)) + 8) % SECTOR_SIZE))
    ELSE 8 * Len(lba) + 8

\* the last file padded like the others
RebuildPaddingAll(lba, file, curr_offset, sector_padding) ==
    IF ~ sector_padding /\ curr_offset % 4 # 0 THEN 4 - (curr_offset % 4)
    ELSE IF sector_padding /\ curr_offset % SECTOR_SIZE # 0
         THEN SECTOR_SIZE - (curr_offset % SECTOR_SIZE)
    ELSE 0

RebuildPadding(lba, file, curr_offset, sector_padding) ==
    IF ~ sector_padding /\ file # Len(lba) /\ curr_offset % 4 # 0 THEN 4 - (curr_offset % 4)
    ELSE IF sector_padding /\ curr_offset % SECTOR_SIZE # 0
         THEN SECTOR_SIZE - (curr_offset % SECTOR_SIZE)
    ELSE 0

RebuildAt(st, file, data, sector_padding, file_loc) ==
    [f |-> WriteAt(st.f, file_loc,
                   data \o Fill(RebuildPadding(st.lba, file, file_loc + Len(data), sector_padding),
                                PAD_BYTE)),
     lba |-> [ShiftFrom(st.lba, file, file_loc - st.lba[file].loc) EXCEPT ![file].size = Len(data)],
     pos |-> file_loc + Len(data)
                + RebuildPadding(st.lba, file, file_loc + Len(data), sector_padding),
     orig_file_loc |-> st.lba[file].loc]

RebuildOne(st, file, data, sector_padding) ==
    RebuildAt(st, file, data, sector_padding,
              IF file > 1 /\ st.orig_file_loc = st.lba[file].loc THEN st.orig_file_loc
              ELSE st.pos)

RECURSIVE RebuildLoop(_, _, _, _)
RebuildLoop(st, file, sector_padding, dir) ==
    IF file > Len(st.lba) THEN st
    ELSE RebuildLoop(RebuildOne(st, file, dir[file].data, sector_padding),
                     file + 1, sector_padding, dir)

_rebuild_helper(f, lba, sector_padding, dir) ==
    RebuildLoop([f |-> Truncate(f, RebuildStart(lba, sector_padding)), lba |-> lba,
                 pos |-> RebuildStart(lba, sector_padding), orig_file_loc |-> 0],
                1, sector_padding, dir)

(***************************************************************************)
(* insert_files, from the signature check on.  The files of the            *)
(* subdirectory are listed with glob on the upper-cased path: a file       *)
(* system that tells upper from lower case lists nothing, the path ending  *)
(* in '_dir'.                                                              *)
(***************************************************************************)
SubdirCheck(dir, case_sensitive) ==
    IF case_sensitive THEN << >>
    ELSE AscendingSeq({ n \in DOMAIN dir : dir[n].present })

InsertNums(file_list, lba) ==
    IF parse_input(file_list, Len(lba)) # << >> /\ parse_input(file_list, Len(lba))[1] = 0
    THEN Tail(parse_input(file_list, Len(lba)))
    ELSE parse_input(file_list, Len(lba))

Rebuilds(f, sector_padding, files_to_insert, dir, case_sensitive) ==
    /\ IsMrg(f)
    /\ FromLE(ReadBytes(f, 4, 4)) > 0
    /\ files_to_insert[1].all
    /\ InsertNums(files_to_insert, read_lba_table(f, sector_padding))
           = SubdirCheck(dir, case_sensitive)

RECURSIVE WriteTable(_, _, _, _)
WriteTable(f, lba, i, sector_padding) ==
    IF i > Len(lba) THEN f
    ELSE WriteTable(WriteAt(f, lba[i].ptr,
                            ToLE4(IF sector_padding THEN lba[i].loc \div SECTOR_SIZE
                                  ELSE lba[i].loc) \o ToLE4(lba[i].size)),
                    lba, i + 1, sector_padding)

InsertWith(f, lba, file_nums, sector_padding, dir, rebuild) ==
    IF rebuild THEN _rebuild_helper(f, lba, sector_padding, dir)
    ELSE _insert_helper([f |-> f, lba |-> lba], file_nums, sector_padding, dir)

InsertAndWriteBack(res, sector_padding) == WriteTable(res.f, res.lba, 1, sector_padding)

\* With a count of 0 read_lba_table unpacks the empty result of sort_together
\* into three lists and raises ValueError; nothing has been written.
insert_files(f, sector_padding, files_to_insert, dir, case_sensitive) ==
    IF ~ IsMrg(f) THEN f
    ELSE IF FromLE(ReadBytes(f, 4, 4)) = 0 THEN f
    ELSE IF parse_input(files_to_insert, FromLE(ReadBytes(f, 4, 4))) = << >> THEN f
    ELSE InsertAndWriteBack(
             InsertWith(f, read_lba_table(f, sector_padding),
                        InsertNums(files_to_insert, read_lba_table(f, sector_padding)),
                        sector_padding, dir,
                        Rebuilds(f, sector_padding, files_to_insert, dir, case_sensitive)),
             sector_padding)

(***************************************************************************)
(* Containers.  The subfile k of a container holds the bytes 16k+1, 16k+2, *)
(* ..; a replacement holds 192+16k+1, ...  The sizes of the subfiles are   *)
(* 4, 8, 12, .. or 10, 8, 10, ..  The data follows the table (the sector   *)
(* of the table with sector_padding), each subfile padded with 0x8C to the *)
(* alignment, the last one only with sector_padding.  The slots of the     *)
(* table are in the order of the data or in the reverse order, and the     *)
(* last slot may repeat the slot before it.  The containers handled with   *)
(* sector_padding have the sizes 4, 8, .. and their slots in order.        *)
(***************************************************************************)
FileNums == 0 .. (MaxFiles + 1)
EmptyDir == [n \in FileNums |-> Absent]

SubfileData(k, n, tag) == [i \in 1 .. n |-> (tag + 16 * k + i) % 256]

SubfileSize(k, variant) ==
    IF variant = 1 THEN 4 * k ELSE IF k % 2 = 1 THEN 10 ELSE 8

DataStart(n, sector_padding) ==
    IF sector_padding THEN CeilTo(8 + 8 * n, SECTOR_SIZE) ELSE 8 + 8 * n

\* the subfile stored at place k of the data, and the offset of that place
RECURSIVE PlaceOffset(_, _, _, _)
PlaceOffset(k, n, variant, sector_padding) ==
    IF k = 1 THEN DataStart(n, sector_padding)
    ELSE PlaceOffset(k - 1, n, variant, sector_padding)
         + Allocation(SubfileSize(k - 1, variant), sector_padding)

PlaceOf(i, n, layout) ==
    IF layout = "duplicate" /\ i = n /\ n > 1 THEN n - 1 ELSE i

Places(n, layout) == IF layout = "duplicate" /\ n > 1 THEN n - 1 ELSE n

SlotOf(i, n, layout) == IF layout = "reversed" THEN n + 1 - i ELSE i

SlotBytes(k, n, variant, sector_padding) ==
    ToLE4(IF sector_padding THEN PlaceOffset(k, n, variant, sector_padding) \div SECTOR_SIZE
          ELSE PlaceOffset(k, n, variant, sector_padding))
    \o ToLE4(SubfileSize(k, variant))

PlaceBytes(k, places, variant, sector_padding) ==
    SubfileData(k, SubfileSize(k, variant), 0)
    \o (IF sector_padding \/ k < places
        THEN Fill(Allocation(SubfileSize(k, variant), sector_padding) - SubfileSize(k, variant),
                  PAD_BYTE)
        ELSE << >>)

MakeContainer(n, variant, sector_padding, layout) ==
    MRG_SIG \o ToLE4(n)
    \o Concat([s \in 1 .. n |->
                 SlotBytes(PlaceOf(SlotOf(s, n, layout), n, layout), n, variant, sector_padding)])
    \o Fill(DataStart(n, sector_padding) - (8 + 8 * n), 0)
    \o Concat([k \in 1 .. Places(n, layout) |->
                 PlaceBytes(k, Places(n, layout), variant, sector_padding)])

Layouts == {"compact", "reversed", "duplicate"}

Containers(sector_padding) ==
    IF sector_padding
    THEN { MakeContainer(n, 1, TRUE, "compact") : n \in 0 .. MaxFiles }
    ELSE { MakeContainer(n, variant, FALSE, layout) :
             n \in 0 .. MaxFiles, variant \in 1 .. 2, layout \in Layouts }

InsertSizes(sector_padding) == IF sector_padding THEN {2, SECTOR_SIZE + 1} ELSE {2, 6, 16}

ExtractLists(n) ==
    { << Star >>, << Single(0) >>, << Single(n) >>, << Single(n + 1), Single(1) >> }

NoOp == [op |-> "none", sel |-> << >>, before |-> << >>, dir |-> EmptyDir, rebuilt |-> FALSE]

NumFiles(f) == FromLE(ReadBytes(f, 4, 4))

(***************************************************************************)
(* The container engine as a state machine.  Targeted inserts: the user    *)
(* puts a replacement for the file num into the subdirectory and calls     *)
(* insert_files with that number.  Then files are extracted, and           *)
(* insert_files is called with '*', after the user has replaced up to two  *)
(* of the extracted files.  mrg_last keeps the call: its file list, the    *)
(* container and the subdirectory it was called on.                        *)
(***************************************************************************)
MrgInsert ==
    /\ mrg_pc = "ready"
    /\ mrg_inserts < MaxInserts
    /\ \E num \in 1 .. (NumFiles(mrg_file) + 1), size \in InsertSizes(mrg_sector) :
         LET dir == [mrg_dir EXCEPT ![num] = File(SubfileData(num, size, 192))]
         IN  /\ mrg_dir' = dir
             /\ mrg_file' = insert_files(mrg_file, mrg_sector, << Single(num) >>, dir, FALSE)
             /\ mrg_last' = [op |-> "insert", sel |-> << Single(num) >>,
                             before |-> mrg_file, dir |-> dir, rebuilt |-> FALSE]
    /\ mrg_inserts' = mrg_inserts + 1
    /\ UNCHANGED << mrg_pc, mrg_sector >>

MrgExtract ==
    /\ mrg_pc = "ready"
    /\ \E sel \in ExtractLists(NumFiles(mrg_file)) :
         /\ mrg_dir' = extract_files(mrg_file, mrg_sector, sel, mrg_dir)
         /\ mrg_last' = [op |-> "extract", sel |-> sel, before |-> mrg_file,
                         dir |-> mrg_dir, rebuilt |-> FALSE]
    /\ mrg_pc' = "extracted"
    /\ UNCHANGED << mrg_file, mrg_sector, mrg_inserts >>

\* the user replaces an extracted file
Replaced(dir, num, size) ==
    IF num > 0 /\ dir[num].present
    THEN [dir EXCEPT ![num] = File(SubfileData(num, size, 192))]
    ELSE dir

MrgInsertAll ==
    /\ mrg_pc = "extracted"
    /\ \E num \in 0 .. NumFiles(mrg_file), size \in InsertSizes(mrg_sector),
          size2 \in InsertSizes(mrg_sector), case_sensitive \in BOOLEAN :
       \E num2 \in {0} \cup ((num + 1) .. NumFiles(mrg_file)) :
         LET dir == Replaced(Replaced(mrg_dir, num, size), num2, size2)
         IN  /\ mrg_dir' = dir
             /\ mrg_file' = insert_files(mrg_file, mrg_sector, << Star >>, dir, case_sensitive)
             /\ mrg_last' = [op |-> "insert_all", sel |-> << Star >>, before |-> mrg_file,
                             dir |-> dir,
                             rebuilt |-> Rebuilds(mrg_file, mrg_sector, << Star >>, dir,
                                                   case_sensitive)]
    /\ mrg_pc' = "done"
    /\ UNCHANGED << mrg_sector, mrg_inserts >>

(***************************************************************************)
(* _compress, the worker pool.  With more than 15 blocks the blocks are    *)
(* given to a multiprocessing.Pool in the order of the block list; a       *)
(* worker takes the next block when it is free, so at most pool_workers    *)
(* blocks are being compressed at a time.  A worker appends the block to   *)
(* the shared list when _compress_block ends; an exception raised in a     *)
(* worker is kept in a result nobody asks for, and nothing is appended.    *)
(* After the join the list is sorted by block number and written.          *)
(***************************************************************************)
PoolSizes == {1, 2}

\* run_compression in mod_mode on a file of sixteen blocks that differ from
\* each other: the last block may be a single byte, on which _compress_block
\* raises; the metadata holds no orderings yet
PoolCases ==
    { [last |-> << 16, 254 >>, sort_order_list |-> << >>],
      [last |-> << 16 >>, sort_order_list |-> << >>] }

PoolData(c) ==
    [i \in 1 .. (POOL_THRESHOLD + 1) |-> IF i = POOL_THRESHOLD + 1 THEN c.last ELSE << i, 254 >>]

PoolHost(c) ==
    ToLE4(SumLen(PoolData(c))) \o BPE_SIG
    \o Concat([i \in 1 .. Len(PoolData(c)) |-> LitBlock(PoolData(c)[i])]) \o ZERO_WORD

PoolMeta(c) ==
    ToLE4(SumLen(PoolData(c))) \o ToLE2(0) \o ToLE2(Len(PoolData(c)))
    \o Concat([i \in 1 .. Len(PoolData(c)) |-> ToLE4(Len(PoolData(c)[i]))]) \o FF_WORD
    \o c.sort_order_list

PoolArgs(dec_size) ==
    [name |-> "OTHER", is_subfile |-> FALSE, mod_mode |-> TRUE,
     max_attempts |-> DEFAULT_MAX_ATTEMPTS, dec_size |-> dec_size]

\* _compress up to the start of the pool: the metadata is read, the host is
\* cut at the start block and the bytes after the end block are kept
PoolStart(dec, host, m, d) ==
    [blocks |-> SplitBlocks(dec, 0, m.blocksize_list, 0),
     sort_order_list |-> m.sort_order_list,
     dec_size |-> Len(dec),
     sized |-> WriteSize(Truncate(host, d.start_block_offset), 0, Len(dec) - m.orig_file_size),
     comp_file_end |-> SubSeq(host, d.end_block_offset + 1, Len(host)),
     orig_end |-> d.end_block_offset]

\* the blocks the pool has handed to a worker and that have not ended
Running ==
    { i \in 1 .. Len(pool_blocks) :
        i \notin pool_done
        /\ Cardinality({ j \in 1 .. (i - 1) : j \notin pool_done }) < pool_workers }

RECURSIVE StableSortByNum(_)
StableSortByNum(list) ==
    IF list = << >> THEN << >>
    ELSE LET first == CHOOSE i \in 1 .. Len(list) :
                        /\ \A j \in 1 .. Len(list) : list[i].num <= list[j].num
                        /\ \A j \in 1 .. (i - 1) : list[i].num < list[j].num
         IN  << list[first] >> \o StableSortByNum(RemoveAt(list, first))

\* the list as the workers left it
Unsorted(list) == list

\* comp_block_list.sort(key=lambda x: x[0])
SortByBlockNum(list) == StableSortByNum(list)

RegionOf(list) == Concat([k \in 1 .. Len(list) |-> list[k].data])

\* (a variant that writes the block numbers)
OrderBytesAsNums(list) == [k \in 1 .. Len(list) |-> list[k].num]

\* num[1].to_bytes(1, 'little') for num in return_vals[2]
OrderBytes(list) == [k \in 1 .. Len(list) |-> list[k].order]

\* new_sort_list.append((block[0], sort_order)): the list is the one of
\* _compress only when the metadata held no ordering
Recorded(i) ==
    IF pool_call.sort_order_list = << >>
    THEN Append(pool_new_order, [num |-> i, order |-> pool_orders[i]])
    ELSE pool_new_order

\* _compress_block runs to its end in a worker: the ordering is recorded
\* and the block is appended
PoolAppend ==
    /\ pool_pc = "running"
    /\ \E i \in Running :
         /\ pool_results[i].status = "ok"
         /\ pool_new_order' = Recorded(i)
         /\ pool_list' = Append(pool_list, [num |-> i, data |-> pool_results[i].data])
         /\ pool_done' = pool_done \cup {i}
    /\ UNCHANGED << pool_pc, pool_blocks, pool_orders, pool_results, pool_workers, pool_region,
                    pool_call, pool_host, pool_meta, pool_vals >>

\* _compress_block raises in a worker after the ordering was recorded
PoolLost ==
    /\ pool_pc = "running"
    /\ \E i \in Running :
         /\ pool_results[i].status # "ok"
         /\ pool_new_order' = Recorded(i)
         /\ pool_done' = pool_done \cup {i}
    /\ UNCHANGED << pool_pc, pool_blocks, pool_orders, pool_results, pool_workers, pool_list,
                    pool_region, pool_call, pool_host, pool_meta, pool_vals >>

\* pool.join() has returned: the lists are sorted, the blocks and the bytes
\* that followed the end block are written, and _compress returns
PoolWrite ==
    /\ pool_pc = "running"
    /\ pool_done = 1 .. Len(pool_blocks)
    /\ pool_region' = RegionOf(SortByBlockNum(pool_list))
    /\ pool_new_order' = StableSortByNum(pool_new_order)
    /\ pool_host' = pool_host \o pool_region' \o pool_call.comp_file_end
    /\ pool_vals' = [orig_end |-> pool_call.orig_end,
                     new_end |-> Len(pool_host) + Len(pool_region')]
    /\ pool_pc' = "written"
    /\ UNCHANGED << pool_blocks, pool_orders, pool_results, pool_workers, pool_done, pool_list,
                    pool_call, pool_meta >>

\* run_compression accepts the attempt and writes the orderings after the
\* terminator of the metadata
PoolAccept ==
    /\ pool_pc = "written"
    /\ ~ ShouldRetry(PoolArgs(pool_call.dec_size), pool_vals, 1)
    /\ ~ ShouldFail(PoolArgs(pool_call.dec_size), pool_vals, 1)
    /\ pool_meta' = WriteOrders(pool_meta, OrderBytes(pool_new_order))
    /\ pool_pc' = "File compressed"
    /\ UNCHANGED << pool_blocks, pool_orders, pool_results, pool_workers, pool_done, pool_list,
                    pool_region, pool_new_order, pool_call, pool_host, pool_vals >>

(***************************************************************************)
(* Specifications.  Each one runs one part of the program; the variables   *)
(* of the other parts stay idle.                                           *)
(***************************************************************************)
IdleBlock ==
    /\ blk_pc = "idle"
    /\ blk_data = << >>
    /\ blk_order = 0
    /\ blk_comp = NoBlock
    /\ blk_decoded = NoBlock

IdleRun ==
    /\ run_pc = "idle"
    /\ run_args = [exists |-> FALSE]
    /\ run_attempts = 0
    /\ run_calls = 0
    /\ run_host = NoFile
    /\ run_temp = NoFile
    /\ run_vals = NoVals
    /\ run_ret = None
    /\ run_report = ""

IdleDecomp ==
    /\ dcm_pc = "idle"
    /\ dcm_host = << >>
    /\ dcm_before = << >>
    /\ dcm_args = [is_subfile |-> FALSE]
    /\ dcm_res = NoResult
    /\ dcm_fs = NoFiles

IdleStream ==
    /\ str_pc = "idle"
    /\ str_host = << >>
    /\ str_before = << >>
    /\ str_temp = Absent
    /\ str_dec = << >>
    /\ str_meta = << >>
    /\ str_args = [is_subfile |-> FALSE]
    /\ str_attempts = 0
    /\ str_vals = NoVals
    /\ str_call = NoResult
    /\ str_runs = 0
    /\ str_orders = << >>

IdlePool ==
    /\ pool_pc = "idle"
    /\ pool_blocks = << >>
    /\ pool_orders = << >>
    /\ pool_results = << >>
    /\ pool_workers = 0
    /\ pool_done = {}
    /\ pool_list = << >>
    /\ pool_region = << >>
    /\ pool_new_order = << >>
    /\ pool_call = << >>
    /\ pool_host = << >>
    /\ pool_meta = << >>
    /\ pool_vals = << >>

IdleMrg ==
    /\ mrg_pc = "idle"
    /\ mrg_file = << >>
    /\ mrg_sector = FALSE
    /\ mrg_dir = EmptyDir
    /\ mrg_last = NoOp
    /\ mrg_inserts = 0

InitBlock ==
    /\ blk_pc = "ready"
    /\ blk_data \in Blocks
    /\ blk_order \in 0 .. 4
    /\ blk_comp = NoBlock
    /\ blk_decoded = NoBlock
    /\ IdleRun /\ IdleDecomp /\ IdleStream /\ IdleMrg /\ IdlePool

NextBlock ==
    \/ CompressBlockStep /\ UNCHANGED << runVars, decompVars, streamVars, mrgVars, poolVars >>
    \/ DecodeBlockStep /\ UNCHANGED << runVars, decompVars, streamVars, mrgVars, poolVars >>

SpecBlock == InitBlock /\ [][NextBlock]_vars

InitRun ==
    /\ run_pc = "called"
    /\ run_args \in [exists : BOOLEAN, mod_mode : BOOLEAN, is_subfile : BOOLEAN,
                     max_attempts : 1 .. MaxAttemptsArg, dec_size : DecSizes,
                     name : NameKinds]
    /\ run_attempts = 0
    /\ run_calls = 0
    /\ run_host \in { CleanHost(e) : e \in RegionEnds }
    /\ run_temp = NoFile
    /\ run_vals = NoVals
    /\ run_ret = "pending"
    /\ run_report = ""
    /\ IdleBlock /\ IdleDecomp /\ IdleStream /\ IdleMrg /\ IdlePool

NextRun ==
    \/ RunSkip /\ UNCHANGED << blockVars, decompVars, streamVars, mrgVars, poolVars >>
    \/ RunStart /\ UNCHANGED << blockVars, decompVars, streamVars, mrgVars, poolVars >>
    \/ RunRetry /\ UNCHANGED << blockVars, decompVars, streamVars, mrgVars, poolVars >>
    \/ RunFail /\ UNCHANGED << blockVars, decompVars, streamVars, mrgVars, poolVars >>
    \/ RunAccept /\ UNCHANGED << blockVars, decompVars, streamVars, mrgVars, poolVars >>

SpecRun == InitRun /\ [][NextRun]_vars

InitDecomp ==
    /\ dcm_pc = "called"
    /\ dcm_host \in Streams
    /\ dcm_before = dcm_host
    /\ dcm_args \in [start_block : 0 .. 1, end_block : 0 .. 2, is_subfile : BOOLEAN]
    /\ dcm_res = NoResult
    /\ dcm_fs = NoFiles
    /\ IdleBlock /\ IdleRun /\ IdleStream /\ IdleMrg /\ IdlePool

NextDecomp == RunDecompression /\ UNCHANGED << blockVars, runVars, streamVars, mrgVars, poolVars >>

SpecDecomp == InitDecomp /\ [][NextDecomp]_vars

InitStream ==
    /\ str_pc = "start"
    /\ str_host \in Hosts
    /\ str_before = str_host
    /\ str_temp = Absent
    /\ str_dec = << >>
    /\ str_meta = << >>
    /\ str_args \in [mod_mode : BOOLEAN, is_subfile : BOOLEAN, name : NameKinds,
                     max_attempts : {DEFAULT_MAX_ATTEMPTS}, dec_size : {0}, exists : {TRUE}]
    /\ str_attempts = 0
    /\ str_vals = NoVals
    /\ str_call = NoResult
    /\ str_runs = 0
    /\ str_orders = << >>
    /\ IdleBlock /\ IdleRun /\ IdleDecomp /\ IdleMrg /\ IdlePool

NextStream ==
    \/ StreamDecompress /\ UNCHANGED << blockVars, runVars, decompVars, mrgVars, poolVars >>
    \/ StreamRunStart /\ UNCHANGED << blockVars, runVars, decompVars, mrgVars, poolVars >>
    \/ StreamCompress /\ UNCHANGED << blockVars, runVars, decompVars, mrgVars, poolVars >>
    \/ StreamRaise /\ UNCHANGED << blockVars, runVars, decompVars, mrgVars, poolVars >>
    \/ StreamRetry /\ UNCHANGED << blockVars, runVars, decompVars, mrgVars, poolVars >>
    \/ StreamFail /\ UNCHANGED << blockVars, runVars, decompVars, mrgVars, poolVars >>
    \/ StreamAccept /\ UNCHANGED << blockVars, runVars, decompVars, mrgVars, poolVars >>

SpecStream == InitStream /\ [][NextStream]_vars

\* successive calls of run_compression on one host, one decompressed file and
\* one metadata sidecar
RerunHosts ==
    { ToLE4(SumLen(ds)) \o BPE_SIG \o Concat([i \in 1 .. Len(ds) |-> LitBlock(ds[i])])
          \o ZERO_WORD \o tail : ds \in HostBlockLists, tail \in HostTails }

InitRerun ==
    /\ str_pc = "start"
    /\ str_host \in RerunHosts
    /\ str_before = str_host
    /\ str_temp = Absent
    /\ str_dec = << >>
    /\ str_meta = << >>
    /\ str_args \in [mod_mode : BOOLEAN, is_subfile : {FALSE}, name : {"OTHER"},
                     max_attempts : {DEFAULT_MAX_ATTEMPTS}, dec_size : {0}, exists : {TRUE}]
    /\ str_attempts = 0
    /\ str_vals = NoVals
    /\ str_call = NoResult
    /\ str_runs = 0
    /\ str_orders = << >>
    /\ IdleBlock /\ IdleRun /\ IdleDecomp /\ IdleMrg /\ IdlePool

NextRerun ==
    \/ StreamDecompress /\ UNCHANGED << blockVars, runVars, decompVars, mrgVars, poolVars >>
    \/ StreamRunStart /\ UNCHANGED << blockVars, runVars, decompVars, mrgVars, poolVars >>
    \/ StreamRerun /\ UNCHANGED << blockVars, runVars, decompVars, mrgVars, poolVars >>
    \/ StreamCompress /\ UNCHANGED << blockVars, runVars, decompVars, mrgVars, poolVars >>
    \/ StreamRaise /\ UNCHANGED << blockVars, runVars, decompVars, mrgVars, poolVars >>
    \/ StreamRetry /\ UNCHANGED << blockVars, runVars, decompVars, mrgVars, poolVars >>
    \/ StreamFail /\ UNCHANGED << blockVars, runVars, decompVars, mrgVars, poolVars >>
    \/ StreamAccept /\ UNCHANGED << blockVars, runVars, decompVars, mrgVars, poolVars >>

SpecRerun == InitRerun /\ [][NextRerun]_vars

InitMrg ==
    /\ mrg_pc = "ready"
    /\ mrg_sector \in BOOLEAN
    /\ mrg_file \in Containers(mrg_sector)
    /\ mrg_dir = EmptyDir
    /\ mrg_last = NoOp
    /\ mrg_inserts = 0
    /\ IdleBlock /\ IdleRun /\ IdleDecomp /\ IdleStream /\ IdlePool

InitPool ==
    /\ pool_pc = "running"
    /\ \E c \in PoolCases :
         /\ pool_meta = PoolMeta(c)
         /\ pool_call = PoolStart(Concat(PoolData(c)), PoolHost(c), ParseMeta(PoolMeta(c)),
                                  _dummy_decompress(PoolHost(c), 0, Len(PoolData(c)), FALSE))
    /\ pool_host = pool_call.sized
    /\ pool_blocks = pool_call.blocks
    /\ pool_orders \in OrderChoices(pool_blocks, pool_call.sort_order_list, 1, TRUE)
    /\ pool_results = CompressBlocks(pool_blocks, pool_orders)
    /\ pool_workers \in PoolSizes
    /\ pool_done = {}
    /\ pool_list = << >>
    /\ pool_region = << >>
    /\ pool_new_order = << >>
    /\ pool_vals = << >>
    /\ IdleBlock /\ IdleRun /\ IdleDecomp /\ IdleStream /\ IdleMrg

NextPool ==
    \/ PoolAppend /\ UNCHANGED << blockVars, runVars, decompVars, streamVars, mrgVars >>
    \/ PoolLost /\ UNCHANGED << blockVars, runVars, decompVars, streamVars, mrgVars >>
    \/ PoolWrite /\ UNCHANGED << blockVars, runVars, decompVars, streamVars, mrgVars >>
    \/ PoolAccept /\ UNCHANGED << blockVars, runVars, decompVars, streamVars, mrgVars >>

SpecPool == InitPool /\ [][NextPool]_vars

\* targeted inserts, one after the other
NextMrgInsert == MrgInsert /\ UNCHANGED << blockVars, runVars, decompVars, streamVars, poolVars >>

SpecMrgInsert == InitMrg /\ [][NextMrgInsert]_vars

\* files extracted, then insert_files called with '*'
NextMrg ==
    \/ MrgExtract /\ UNCHANGED << blockVars, runVars, decompVars, streamVars, poolVars >>
    \/ MrgInsertAll /\ UNCHANGED << blockVars, runVars, decompVars, streamVars, poolVars >>

SpecMrg == InitMrg /\ [][NextMrg]_vars

(***************************************************************************)
(* Properties of the block codec.                                          *)
(***************************************************************************)

\* C1: for every block of 1 to 0x800 bytes and every tie-break ordering,
\* _compress_block produces a block, and the decompressor's dictionary build
\* and expansion, given the block's length, return exactly the original bytes.
C1_RoundTrip ==
    blk_pc \in {"raised", "compressed", "decoded"} =>
        /\ blk_pc # "raised"
        /\ blk_pc = "decoded" => (blk_decoded.status = "ok" /\ blk_decoded.out = blk_data)

IsPairKey(d, k) == d.rightch[k] # Empty
IsLiteralKey(d, k) == d.rightch[k] = Empty /\ d.leftch[k] = k
AssignedBefore(d, c, k) ==
    \E i, j \in 1 .. Len(d.assigned) : i < j /\ d.assigned[i] = c /\ d.assigned[j] = k

RECURSIVE DescentDepth(_, _)
DescentDepth(d, k) ==
    IF ~ IsPairKey(d, k) THEN 0
    ELSE 1 + Max({ DescentDepth(d, d.leftch[k]), DescentDepth(d, d.rightch[k]) })

\* C5: the dictionary _compress_block builds has no cycle: the children of
\* every key that holds a pair are literal keys or pair keys assigned earlier,
\* and the descent from any key to literals is at most 256 steps deep.
C5_NoCycle ==
    blk_pc # "ready" =>
        /\ \A k \in Keys : IsPairKey(blk_comp, k) =>
              \A c \in { blk_comp.leftch[k], blk_comp.rightch[k] } :
                  IsLiteralKey(blk_comp, c) \/ AssignedBefore(blk_comp, c, k)
        /\ \A k \in Keys : DescentDepth(blk_comp, k) <= DICT_SIZE

\* a pair key whose left child is itself a pair key has been assigned
C5_Witness ==
    /\ blk_pc = "decoded"
    /\ \E k \in Keys : IsPairKey(blk_comp, k) /\ IsPairKey(blk_comp, blk_comp.leftch[k])

(***************************************************************************)
(* Properties of run_compression.                                          *)
(***************************************************************************)
Returned == run_pc = "returned" /\ run_args.exists
Exhausted == Returned /\ run_report = "Could not compress subfile to original size"
Accepted == Returned /\ run_report = "File compressed"

\* C2: in constrained mode, when run_compression has returned, the block
\* region in the host ends at or before the original region's end, or the
\* host is the file it was before the call (the temp copy put back).
C2_NoOversizedRegion ==
    (Returned /\ Constrained(run_args)) =>
        \/ run_host.ver = "written" /\ run_host.end <= run_vals.orig_end
        \/ run_host = CleanHost(run_vals.orig_end)

\* the budget ran out after at least one retry and the host was put back
C2_Witness ==
    /\ Exhausted
    /\ run_calls >= 2
    /\ run_host.ver = "clean"

\* C7: what run_compression hands its caller when the attempt budget is
\* exhausted differs from what it hands its caller after a success.
ReturnOnSuccess == None
C7_ExhaustionDistinguishable == Exhausted => run_ret # ReturnOnSuccess

\* C8: in constrained mode run_compression calls _compress at most
\* max_attempts times.
C8_AtMostMaxAttempts == Constrained(run_args) => run_calls <= run_args.max_attempts

(***************************************************************************)
(* Properties of _decompress.                                              *)
(***************************************************************************)
InvalidPrefixRead ==
    /\ dcm_pc \notin {"idle", "called"}
    /\ \E i \in 1 .. Len(dcm_res.prefixes) : dcm_res.prefixes[i] > BLOCK_MAX

NothingWritten == \A n \in DOMAIN dcm_fs : dcm_fs[n].dec = Absent /\ dcm_fs[n].meta = Absent

\* C6: when a size prefix read by _decompress is greater than 0x800, in
\* whichever block, the call ends with the invalid-block outcome, no
\* decompressed file and no metadata sidecar is written, and the host's
\* bytes are unchanged.
C6_InvalidPrefixAborts ==
    InvalidPrefixRead =>
        /\ dcm_pc = "invalid block size"
        /\ NothingWritten
        /\ dcm_host = dcm_before

\* the invalid prefix was met after a valid block had been decoded
C6_Witness ==
    /\ InvalidPrefixRead
    /\ Len(dcm_res.prefixes) >= 2
    /\ Len(dcm_res.out) > 0

(***************************************************************************)
(* Properties of run_compression on the bytes of the host.                 *)
(***************************************************************************)
\* the block region of the host as it was when run_compression was called
RegionBefore ==
    _dummy_decompress(str_before, ParseMeta(str_meta).start_block,
                      ParseMeta(str_meta).end_block, str_args.is_subfile)

SizeWordAt == IF str_args.is_subfile THEN RegionBefore.subfile_start ELSE 0

BytesAfterRegion == SubSeq(str_before, RegionBefore.end_block_offset + 1, Len(str_before))

\* C10: after a successful run_compression every host byte before the block
\* region, the 4-byte total-size word excepted, is what it was, and the
\* bytes that followed the original region stand, in order, after the new
\* region.
C10_FramePreserved ==
    str_pc = "File compressed" =>
        /\ \A i \in 0 .. (RegionBefore.start_block_offset - 1) :
              (i < SizeWordAt \/ i >= SizeWordAt + 4) => str_host[i + 1] = str_before[i + 1]
        /\ SubSeq(str_host, str_vals.new_end + 1, str_vals.new_end + Len(BytesAfterRegion))
              = BytesAfterRegion

(***************************************************************************)
(* Properties of the MRG container engine.                                 *)
(***************************************************************************)
\* the container of two subfiles with the table entries (0x18, 4), (0x1C, 8)
ScenarioContainer == MakeContainer(2, 1, FALSE, "compact")

ScenarioExtracted(num) ==
    /\ mrg_last.op = "extract"
    /\ mrg_last.before = ScenarioContainer
    /\ ~ mrg_sector
    /\ (Star \in Range(mrg_last.sel) \/ Single(num) \in Range(mrg_last.sel))

\* C9: for the container with signature MRG\x1a, count 2 and table entries
\* [(0x18,4),(0x1C,8)], extracting file number 2 writes a file that holds
\* exactly the 8 bytes at the container offsets 0x1C..0x23, and extracting
\* file number 1 writes the 4 bytes at the offsets 0x18..0x1B.
C9_ExtractSecondFile ==
    /\ ScenarioExtracted(2) => mrg_dir[2] = File(SubSeq(ScenarioContainer, 29, 36))
    /\ ScenarioExtracted(1) => mrg_dir[1] = File(SubSeq(ScenarioContainer, 25, 28))

\* file 2 of the scenario container has been extracted from the table
\* entries the claim names
C9_Witness ==
    /\ ScenarioExtracted(2)
    /\ SubSeq(ScenarioContainer, 1, 4) = MRG_SIG
    /\ read_lba_table(ScenarioContainer, FALSE)
         = << [ptr |-> 8, loc |-> 24, size |-> 4], [ptr |-> 16, loc |-> 28, size |-> 8] >>
    /\ mrg_dir[2].present
    /\ Len(mrg_dir[2].data) = 8

\* C9 as stated: extracting index 1 writes the 8 bytes at 0x1C..0x23
C9_ExtractIndex1 ==
    ScenarioExtracted(1) => mrg_dir[1] = File(SubSeq(ScenarioContainer, 29, 36))

\* insert_files was called with '*' on the subdirectory that extracting all
\* files of the container gives, and rebuilt the container
RoundTrip ==
    /\ mrg_last.op = "insert_all"
    /\ mrg_last.rebuilt
    /\ mrg_last.dir = extract_files(mrg_last.before, mrg_sector, << Star >>, EmptyDir)

\* The layout _rebuild_helper writes: the first subfile where the rebuild
\* starts, every other one at the end of the allocation of the one before
\* it, 0x8C from the end of a subfile to the end of its allocation, and the
\* container ending with the last subfile (with its allocation in sector
\* mode).
PaddedEnd(lba, i, sector_padding) ==
    lba[i].loc + (IF sector_padding \/ i < Len(lba)
                  THEN Allocation(lba[i].size, sector_padding) ELSE lba[i].size)

CompactTable(f, lba, sector_padding) ==
    /\ lba # << >>
    /\ lba[1].loc = RebuildStart(lba, sector_padding)
    /\ \A i \in 1 .. (Len(lba) - 1) : lba[i + 1].loc = PaddedEnd(lba, i, sector_padding)
    /\ \A i \in 1 .. Len(lba) :
          ReadBytes(f, lba[i].loc + lba[i].size,
                    PaddedEnd(lba, i, sector_padding) - (lba[i].loc + lba[i].size))
            = Fill(PaddedEnd(lba, i, sector_padding) - (lba[i].loc + lba[i].size), PAD_BYTE)
    /\ Len(f) = PaddedEnd(lba, Len(lba), sector_padding)

Compact(f, sector_padding) == CompactTable(f, read_lba_table(f, sector_padding), sector_padding)

TableBefore == read_lba_table(mrg_last.before, mrg_sector)
InsertedNum == mrg_last.sel[1].num
InsertedSize == Len(mrg_last.dir[InsertedNum].data)
EntryAfter(ptr) ==
    CHOOSE e \in Range(read_lba_table(mrg_file, mrg_sector)) : e.ptr = ptr

GrowingInsert ==
    /\ mrg_last.op = "insert"
    /\ InsertedNum < Len(TableBefore)
    /\ InsertedSize > Allocation(TableBefore[InsertedNum].size, mrg_sector)

Delta == InsertedSize - Allocation(TableBefore[InsertedNum].size, mrg_sector)

OthersKeepBytes ==
    \A i \in 1 .. Len(TableBefore) :
        i # InsertedNum =>
            ReadBytes(mrg_file, EntryAfter(TableBefore[i].ptr).loc,
                      EntryAfter(TableBefore[i].ptr).size)
              = ReadBytes(mrg_last.before, TableBefore[i].loc, TableBefore[i].size)

\* C4: when a targeted insert replaces a non-last subfile with a file whose
\* size exceeds its original allocation by Delta bytes, the offset of every
\* later table entry increases by exactly Delta, the offset of every earlier
\* entry is unchanged, and the bytes of every other subfile, read through
\* the updated table, are the same as before the insert.
C4_ShiftByDelta ==
    GrowingInsert =>
        /\ \A i \in 1 .. Len(TableBefore) :
              /\ i > InsertedNum =>
                    EntryAfter(TableBefore[i].ptr).loc = TableBefore[i].loc + Delta
              /\ i < InsertedNum =>
                    EntryAfter(TableBefore[i].ptr).loc = TableBefore[i].loc
        /\ OthersKeepBytes

\* the file numbers a call of extract_files selects
SelectedNums ==
    { n \in FileNums :
        \/ Single(n) \in Range(mrg_last.sel)
        \/ (Star \in Range(mrg_last.sel) /\ n >= 1 /\ n <= Len(TableBefore)) }

ExtractOutcome ==
    /\ mrg_file = mrg_last.before
    /\ \A n \in FileNums :
          /\ (n \in SelectedNums /\ n = 0) =>
                mrg_dir[n] = File(SubSeq(mrg_last.before, 1, 8 + 8 * Len(TableBefore)))
          /\ (n \in SelectedNums /\ n >= 1 /\ n <= Len(TableBefore)) =>
                mrg_dir[n] = File(ReadBytes(mrg_last.before, TableBefore[n].loc,
                                            TableBefore[n].size))
          /\ (n \notin SelectedNums \/ n > Len(TableBefore)) => mrg_dir[n] = mrg_last.dir[n]

\* C11: for a container with N >= 1 entries and any selection of indices,
\* extract_files writes one file for every selected index in 0..N, writes no
\* file for a selected index greater than N, continues with the remaining
\* indices after a missing one, and never modifies the container.
C11_ExtractSelected ==
    (mrg_last.op = "extract" /\ Len(TableBefore) >= 1) => ExtractOutcome

\* a file number past the table and a file number of the table were
\* selected in one call
C11_Witness ==
    /\ mrg_last.op = "extract"
    /\ Len(TableBefore) >= 1
    /\ \E n \in SelectedNums : n > Len(TableBefore) /\ ~ mrg_dir[n].present
    /\ \E n \in SelectedNums : n >= 1 /\ n <= Len(TableBefore) /\ mrg_dir[n].present

\* C11 as stated, a container of no entries included
C11_ExtractAnyCount == mrg_last.op = "extract" => ExtractOutcome

(***************************************************************************)
(* Properties of the head of a container under insert_files.               *)
(***************************************************************************)
InsertCall == mrg_last.op \in {"insert", "insert_all"}

SlotPositions(f) == { e.ptr : e \in Range(read_lba_table(f, mrg_sector)) }

\* C16: no insert operation (targeted or full rebuild, followed by the table
\* write-back) changes the container's 4-byte signature, its subfile count,
\* or the number and position of table slots; only the offset and size
\* values inside the slots and the data after the table change.
C16_HeadKept ==
    (InsertCall /\ IsMrg(mrg_last.before)) =>
        /\ ReadBytes(mrg_file, 0, 4) = ReadBytes(mrg_last.before, 0, 4)
        /\ NumFiles(mrg_file) = NumFiles(mrg_last.before)
        /\ Len(mrg_file) >= 8 + 8 * NumFiles(mrg_last.before)
        /\ SlotPositions(mrg_file) = SlotPositions(mrg_last.before)
        /\ SlotPositions(mrg_file) = { 8 * i : i \in 1 .. NumFiles(mrg_last.before) }

\* a full rebuild and a targeted insert that changed bytes of the container
C16_Witness ==
    /\ InsertCall
    /\ NumFiles(mrg_last.before) >= 2
    /\ mrg_file # mrg_last.before
    /\ mrg_last.rebuilt
    /\ \E e \in Range(read_lba_table(mrg_file, mrg_sector)) :
         e \notin Range(read_lba_table(mrg_last.before, mrg_sector))

(***************************************************************************)
(* Properties of the payload decoder.                                      *)
(***************************************************************************)
\* the host holds one block: declared size 6, a dictionary in which 0x41 is
\* the pair (0x10, 0x20) and 0x10, 0x20 are literals, payload 0x41 0x41 0x41
PairBlockAlone ==
    \E pre \in HostPrefixes, term \in { << >>, ZERO_WORD }, tail \in HostTails :
        dcm_host = pre \o ToLE4(0) \o BPE_SIG \o PairBlock \o term \o tail

\* C15: decoding expands each compressed byte left child first: for a single
\* block with declared size 6, a dictionary in which 0x41 is the pair
\* (0x10, 0x20) and 0x10, 0x20 are literals, and payload 0x41 0x41 0x41, the
\* output is 0x10 0x20 0x10 0x20 0x10 0x20.
C15_LeftChildFirst ==
    (PairBlockAlone /\ dcm_res.status = "end" /\ dcm_args.start_block = 0)
        => dcm_res.out = << 16, 32, 16, 32, 16, 32 >>

\* the block was decoded and its output written to the decompressed file
C15_Witness ==
    /\ PairBlockAlone
    /\ dcm_pc = "File decompressed"
    /\ dcm_args.start_block = 0
    /\ \E n \in DOMAIN dcm_fs : dcm_fs[n].dec = File(<< 16, 32, 16, 32, 16, 32 >>)

(***************************************************************************)
(* Properties of the dictionary build.  BuildTrace is the state of the     *)
(* build loop before each control byte and when the loop has ended.        *)
(***************************************************************************)
RECURSIVE BuildTrace(_, _, _)
BuildTrace(f, st, n) ==
    IF st.key >= DICT_SIZE \/ n = 0 THEN << st >>
    ELSE << st >> \o BuildTrace(f, BuildStep(f, st), n - 1)

BlockTrace ==
    BuildTrace(blk_comp.data,
               [key |-> 0, pos |-> 0, leftch |-> [k \in Keys |-> k],
                rightch |-> [k \in Keys |-> Empty], filled |-> {}, controls |-> << >>],
               DICT_SIZE)

Compressed == blk_pc \in {"compressed", "decoded"}
ControlAt(j) == ReadByte(blk_comp.data, BlockTrace[j].pos)
Landing(j) == BlockTrace[j].key + (ControlAt(j) - JUMP_BASE)
FilledBy(j) == BlockTrace[j + 1].filled \ BlockTrace[j].filled

\* C17, with the entry a jump fills: a control byte >= 0x80 advances the fill
\* cursor by (control - 0x7F) and then, when the cursor is below 0x100, fills
\* the one entry at the cursor and moves past it; a control byte < 0x80
\* fills control + 1 consecutive entries from the cursor on.
C17_JumpFillsOne ==
    Compressed =>
        \A j \in 1 .. (Len(BlockTrace) - 1) :
            IF ControlAt(j) >= 128
            THEN IF Landing(j) < DICT_SIZE
                 THEN FilledBy(j) = {Landing(j)} /\ BlockTrace[j + 1].key = Landing(j) + 1
                 ELSE FilledBy(j) = {} /\ BlockTrace[j + 1].key = Landing(j)
            ELSE /\ FilledBy(j) = BlockTrace[j].key .. (BlockTrace[j].key + ControlAt(j))
                 /\ BlockTrace[j + 1].key = BlockTrace[j].key + ControlAt(j) + 1

\* a control byte >= 0x80 after which a byte pair was read into the
\* dictionary, and one that ended the build
C17_Witness ==
    /\ Compressed
    /\ \E j \in 1 .. (Len(BlockTrace) - 1) :
         /\ ControlAt(j) >= 128
         /\ Landing(j) < DICT_SIZE
         /\ BlockTrace[j + 1].leftch[Landing(j)] # Landing(j)
         /\ BlockTrace[j + 1].rightch[Landing(j)] # Empty
    /\ \E j \in 1 .. (Len(BlockTrace) - 1) : ControlAt(j) >= 128 /\ Landing(j) >= DICT_SIZE

\* C17 as stated: while the decompressor builds a block's dictionary, a
\* control byte >= 0x80 only advances the fill cursor by (control - 0x7F) and
\* fills no dictionary entry; entries are filled only by control bytes < 0x80.
C17_JumpFillsNothing ==
    Compressed =>
        \A j \in 1 .. (Len(BlockTrace) - 1) :
            ControlAt(j) >= 128 =>
                FilledBy(j) = {} /\ BlockTrace[j + 1].key = Landing(j)

(***************************************************************************)
(* Properties of the byte count of a decoded block.                        *)
(***************************************************************************)
\* C18: for every block of every stream whose size prefixes are all
\* <= 0x800, the number of bytes _decompress emits for the block equals the
\* block's declared size prefix exactly, never more.
C18_EmitsDeclaredSize ==
    (dcm_pc = "File decompressed" /\ \A i \in 1 .. Len(dcm_res.prefixes) :
                                        dcm_res.prefixes[i] <= BLOCK_MAX) =>
        \A i \in 1 .. Len(dcm_res.decoded) :
            dcm_res.decoded[i].kept => dcm_res.decoded[i].emitted = dcm_res.decoded[i].size

\* C19: for every dictionary-build instruction stream, the decompressor's
\* per-block dictionary has exactly the 256 keys 0x00..0xFF when the build
\* loop ends; no key outside that range is ever written.
C19_ExactlyTheKeys ==
    \A i \in 1 .. (IF dcm_pc = "called" THEN 0 ELSE Len(dcm_res.decoded)) :
        dcm_res.decoded[i].keys = Keys

(***************************************************************************)
(* Properties of the block range of _decompress.                           *)
(***************************************************************************)
StartBlock == dcm_args.start_block
EndBlock == dcm_args.end_block

\* the number of blocks of the stream, counted by a run over all blocks
BlockCount ==
    Len(Decompress(dcm_host, 0, DEFAULT_END_BLOCK, dcm_args.is_subfile).decoded)

InRange(i) == StartBlock <= i /\ i < Min({EndBlock, BlockCount})

\* the outputs of the decoded blocks with an index in the range, in order
RECURSIVE RangeOutput(_, _)
RangeOutput(decoded, i) ==
    IF i > Len(decoded) THEN << >>
    ELSE (IF InRange(decoded[i].block) THEN decoded[i].out ELSE << >>)
         \o RangeOutput(decoded, i + 1)

RECURSIVE RangeSizes(_, _)
RangeSizes(decoded, i) ==
    IF i > Len(decoded) THEN << >>
    ELSE (IF InRange(decoded[i].block) THEN << ToLE4(decoded[i].size) >> ELSE << >>)
         \o RangeSizes(decoded, i + 1)

\* C20: for bounds start < end, the decompressed output is exactly the
\* concatenation, in order, of the decoded blocks with index in
\* [start, min(end, block count)); blocks before start are parsed to advance
\* the read position but contribute no output byte and no metadata size
\* entry, and no block at or after end is decoded.
C20_OutputIsTheRange ==
    (dcm_pc = "File decompressed" /\ StartBlock < EndBlock) =>
        /\ dcm_res.out = RangeOutput(dcm_res.decoded, 1)
        /\ dcm_res.blocksizes = RangeSizes(dcm_res.decoded, 1)
        /\ \A i \in 1 .. Len(dcm_res.decoded) : dcm_res.decoded[i].block = i - 1
        /\ Len(dcm_res.decoded) = Min({EndBlock, BlockCount})
        /\ \E n \in DOMAIN dcm_fs :
             /\ dcm_fs[n].dec = File(RangeOutput(dcm_res.decoded, 1))
             /\ ParseMeta(dcm_fs[n].meta.data).blocksize_list
                  = [i \in 1 .. Len(dcm_res.blocksizes) |-> FromLE(dcm_res.blocksizes[i])]

\* the block before the start block was parsed and left out, and the block
\* after it is the whole output
C20_Witness ==
    /\ dcm_pc = "File decompressed"
    /\ StartBlock = 1
    /\ EndBlock = 2
    /\ Len(dcm_res.decoded) = 2
    /\ dcm_res.decoded[1].emitted > 0
    /\ dcm_res.out = dcm_res.decoded[2].out
    /\ dcm_res.out # << >>
    /\ Len(dcm_res.blocksizes) = 1

(***************************************************************************)
(* Properties of the search for the header in a sub-file host.             *)
(***************************************************************************)
\* C14: _decompress terminates on every finite host file; in particular,
\* when the embedded (is_subfile) flag is set and the host contains no BPE
\* signature, it ends with a bad-signature outcome, writes no output and
\* leaves the host untouched.
C14_EndsOnEveryHost ==
    dcm_pc # "called" =>
        /\ dcm_pc # "no_exit"
        /\ (dcm_args.is_subfile /\ ~ Contains(dcm_host, BPE_SIG)) =>
               /\ dcm_pc = "Not a BPE file"
               /\ dcm_fs = NoFiles
               /\ dcm_host = dcm_before

(***************************************************************************)
(* Properties of the worker pool of _compress.                             *)
(***************************************************************************)
\* the bytes written when every worker ends before the next one starts
RegionInBlockOrder ==
    Concat([i \in 1 .. Len(pool_results) |->
              IF pool_results[i].status = "ok" THEN pool_results[i].data ELSE << >>])

\* C12: for a fixed list of blocks and a fixed tie-break ordering per block,
\* the bytes _compress writes into the block region are identical for every
\* order in which the parallel workers complete and append their results.
C12_CompletionOrderFree == pool_pc # "running" => pool_region = RegionInBlockOrder

\* the region was written after a later block had been appended before an
\* earlier one
C12_Witness ==
    /\ pool_pc # "running"
    /\ \E j, k \in 1 .. Len(pool_list) : j < k /\ pool_list[j].num > pool_list[k].num

\* the orderings of the blocks the host holds after the run, in block order
OrdersOfWritten ==
    [k \in 1 .. Len(pool_list) |-> pool_orders[SortByBlockNum(pool_list)[k].num]]

\* C13: after a successful constrained run_compression on metadata that held
\* no ordering, the sidecar holds, directly after the 0xFFFFFFFF terminator,
\* exactly one byte per compressed block in block-index order, each equal to
\* the tie-break ordering used for that block in the accepted attempt.
C13_OneOrderPerBlock ==
    (pool_pc = "File compressed" /\ pool_call.sort_order_list = << >>)
        => ParseMeta(pool_meta).sort_order_list = OrdersOfWritten

\* C29: the block region the parallel path writes holds one compressed block
\* for every block of the input, in the order of the block numbers; no
\* region is written with the block of a failed worker missing.
C29_EveryBlockWritten ==
    pool_pc # "running" =>
        /\ Len(pool_list) = Len(pool_blocks)
        /\ \A k \in 1 .. Len(pool_list) : SortByBlockNum(pool_list)[k].num = k
        /\ pool_region = Concat([i \in 1 .. Len(pool_results) |-> pool_results[i].data])

(***************************************************************************)
(* Properties of successive runs of run_compression (SpecRerun).           *)
(***************************************************************************)
\* C21: in constrained mode every attempt after an oversized one compresses
\* each block with an ordering drawn anew by _choose_sort from the attempt
\* number, not with the orderings of the attempt before.
C21_RetryPicksAnew ==
    (str_pc = "compressed" /\ Constrained(str_args) /\ str_attempts >= 2)
        => \A i \in DOMAIN str_orders : str_orders[i] \in _choose_sort(str_attempts)

\* C28: after every accepted run of a sequence of runs on one decompressed
\* file and one metadata sidecar, the size word of the stream is the length
\* of what the stream decompresses to, and the stream decompresses to the
\* decompressed file: each of its blocks once.
C28_SizeWordIsTrue ==
    (str_pc = "File compressed" /\ ~ str_args.is_subfile) =>
        /\ Decompress(str_host, 0, DEFAULT_END_BLOCK, FALSE).out = str_dec
        /\ FromLE(ReadBytes(str_host, 0, 4)) = Len(str_dec)

\* C22: whenever an attempt of run_compression is about to call _compress,
\* the host holds the bytes of the copy taken when the run began, and that
\* copy is the host as the run found it; the output of a failed attempt is
\* never the input of the next.
C22_AttemptStartsClean ==
    str_pc = "attempt"
        => (str_temp.present /\ str_host = str_temp.data /\ str_temp.data = str_before)

\* a retry: the attempt before changed the host
C22_Witness ==
    /\ str_pc = "attempt"
    /\ str_attempts >= 2
    /\ str_call.status = "ok"
    /\ str_call.host # str_before

(***************************************************************************)
(* Properties of the table after a full rebuild (SpecMrg).                 *)
(***************************************************************************)
Rebuilt == mrg_last.op = "insert_all" /\ mrg_last.rebuilt

\* C23: after a full rebuild, two table entries that pointed at the same
\* offset before it point at the same offset after it (their data is stored
\* once), whatever was written before them.
C23_DuplicatesStayShared ==
    Rebuilt =>
        \A a, b \in Range(TableBefore) :
            a.loc = b.loc => EntryAfter(a.ptr).loc = EntryAfter(b.ptr).loc

NoDuplicates(lba) == \A i, j \in 1 .. Len(lba) : i # j => lba[i].loc # lba[j].loc

\* C30: after a full rebuild of a container with no duplicate offsets, the
\* entry of every file k has the size of the source file k and an offset at
\* which the container holds the bytes of that file; the offsets do not
\* decrease with k, and each is a multiple of 0x800 with sector padding and
\* of 4 without.
C30_RebuiltEntries ==
    (Rebuilt /\ NoDuplicates(TableBefore)) =>
        \A k \in 1 .. Len(TableBefore) :
            /\ EntryAfter(TableBefore[k].ptr).size = Len(mrg_last.dir[k].data)
            /\ ReadBytes(mrg_file, EntryAfter(TableBefore[k].ptr).loc,
                         EntryAfter(TableBefore[k].ptr).size)
                 = mrg_last.dir[k].data
            /\ EntryAfter(TableBefore[k].ptr).loc % AlignUnit(mrg_sector) = 0
            /\ k > 1 => EntryAfter(TableBefore[k - 1].ptr).loc
                           <= EntryAfter(TableBefore[k].ptr).loc

(***************************************************************************)
(* Properties of targeted inserts (SpecMrgInsert).                         *)
(***************************************************************************)
\* a targeted insert of a file no larger than the allocation of a non-last
\* entry
FittingInsert ==
    /\ mrg_last.op = "insert"
    /\ InsertedNum < Len(TableBefore)
    /\ InsertedSize <= Allocation(TableBefore[InsertedNum].size, mrg_sector)

AllocationEnd ==
    TableBefore[InsertedNum].loc + Allocation(TableBefore[InsertedNum].size, mrg_sector)

FreeKeys == { k \in Keys : k \notin Range(blk_data) /\ k # LAST_KEY }

\* the block and the unfilled keys when the pair loop was left
LoopEnd == BuildDict(blk_data, blk_order)

\* C25: every pair of the dictionary had, when it was chosen, the largest
\* adjacent-pair count of the current block and a count of at least 5; the
\* keys of the pairs are taken downwards from the highest byte value that is
\* absent from the block, never 0xFF; and the loop is left only when the most
\* frequent pair of the current block has a count below 5 or no key is free.
C25_PairLoop ==
    blk_pc # "ready" =>
        /\ Len(blk_comp.chosen) = Len(blk_comp.assigned)
        /\ \A i \in 1 .. Len(blk_comp.chosen) :
              /\ blk_comp.chosen[i][1][3] >= MIN_PAIR_COUNT
              /\ \A e \in Range(blk_comp.chosen[i][2]) : e[3] <= blk_comp.chosen[i][1][3]
              /\ blk_comp.leftch[blk_comp.assigned[i]] = blk_comp.chosen[i][1][1]
              /\ blk_comp.rightch[blk_comp.assigned[i]] = blk_comp.chosen[i][1][2]
              /\ blk_comp.assigned[i]
                   = Max({ k \in FreeKeys : i > 1 => k < blk_comp.assigned[i - 1] })
        /\ \A k \in Keys : blk_comp.rightch[k] # Empty => k \in Range(blk_comp.assigned)
        /\ blk_comp.rightch[LAST_KEY] = Empty
        /\ blk_comp.status = "ok" =>
              \/ LoopEnd.empty_keys = {}
              \/ \A e \in Range(CountPairs(LoopEnd.cur)) : e[3] < MIN_PAIR_COUNT

\* two pairs entered the dictionary, and the loop was left with a pair of
\* the current block that occurs fewer than 5 times
C25_Witness ==
    /\ blk_pc = "compressed"
    /\ Len(blk_comp.assigned) >= 2
    /\ LAST_KEY - 1 \in Range(blk_data)
    /\ \E e \in Range(CountPairs(LoopEnd.cur)) : e[3] >= 2

(***************************************************************************)
(* Properties of the table index (SpecMrgInsert).                          *)
(***************************************************************************)
TableNow == read_lba_table(mrg_file, mrg_sector)

\* what the helper of the last insert_files call left in the index
HelperResult ==
    InsertWith(mrg_last.before, TableBefore, InsertNums(mrg_last.sel, TableBefore),
               mrg_sector, mrg_last.dir, mrg_last.rebuilt)

\* C26: the index read_lba_table builds holds the N slots of the table, each
\* once, in the order of non-decreasing offset and then size, every offset
\* with the size and the slot position it was read with; and the write-back
\* of insert_files stores the values of every entry in the slot the entry
\* was read from.
C26_IndexKeepsSlots ==
    /\ Len(TableNow) = NumFiles(mrg_file)
    /\ { TableNow[i].ptr : i \in 1 .. Len(TableNow) } = { 8 * i : i \in 1 .. NumFiles(mrg_file) }
    /\ \A i \in 1 .. Len(TableNow) :
          TableNow[i] = ReadSlot(mrg_file, TableNow[i].ptr, mrg_sector)
    /\ \A i \in 1 .. (Len(TableNow) - 1) : ~ EntryLess(TableNow[i + 1], TableNow[i])
    /\ (InsertCall /\ NumFiles(mrg_last.before) >= 1) =>
          \A i \in 1 .. Len(TableBefore) :
              ReadSlot(mrg_file, TableBefore[i].ptr, mrg_sector)
                = [ptr |-> TableBefore[i].ptr, loc |-> HelperResult.lba[i].loc,
                   size |-> HelperResult.lba[i].size]

\* an insert has moved an entry of a table whose slots are not in the order
\* of the offsets
C26_Witness ==
    /\ InsertCall
    /\ Len(TableBefore) >= 2
    /\ \E i, j \in 1 .. Len(TableBefore) : i < j /\ TableBefore[i].ptr > TableBefore[j].ptr
    /\ \E i \in 1 .. Len(TableBefore) :
          ReadSlot(mrg_file, TableBefore[i].ptr, mrg_sector).loc # TableBefore[i].loc

\* no entry of the table reaches into the next one
NoOverlap(lba) == \A i \in 1 .. (Len(lba) - 1) : lba[i].loc + lba[i].size <= lba[i + 1].loc

\* C27: after every targeted insert into a container whose entries do not
\* overlap, the entry of the replaced file addresses the bytes of the
\* replacement and every other entry addresses the bytes it addressed
\* before; over a sequence of inserts every entry so addresses its latest
\* replacement, or its original bytes.
C27_EntriesAddressTheirBytes ==
    (mrg_last.op = "insert" /\ Len(TableBefore) >= 1 /\ NoOverlap(TableBefore)) =>
        /\ InsertedNum <= Len(TableBefore) =>
              ReadBytes(mrg_file, EntryAfter(TableBefore[InsertedNum].ptr).loc,
                        EntryAfter(TableBefore[InsertedNum].ptr).size)
                = mrg_last.dir[InsertedNum].data
        /\ OthersKeepBytes

=============================================================================
